---------------------------- MODULE Spec2Model ----------------------------
(***************************************************************************)
(* Riff Hero (src/src/main.cpp): chart parser, tempo calculator, note      *)
(* timeline and gameplay engine.                                           *)
(*                                                                         *)
(* Numbers.  The program computes times as C++ doubles.  The tempo         *)
(* calculator is modelled in exact rational arithmetic: a value n/d is the *)
(* pair <<n, d>> in lowest terms with d > 0 (floating-point rounding is    *)
(* not modelled).  The gameplay engine is modelled on whole microseconds;  *)
(* a screen position is kept in units of 1/1250 pixel, so that the fall    *)
(* speed of 800 px/s is exactly one position unit per microsecond.         *)
(***************************************************************************)
EXTENDS Integers, Sequences, FiniteSets, TLC

VARIABLES
    \* Chart::DadosChart held by the game, and Chart::CalculadoraTempo
    dadosChartOpt,            \* std::optional: <<>> or <<the chart document>>
    calculadoraTempoOpt,      \* std::optional: <<>> or <<mudancasTempoOrdenadas>>
    consultas,                \* the last calls of ticksParaSegundos: <<[tick, seg]>>
    \* Chart::ParserChart::fazerParsingChart
    arquivoEmDisco,           \* the chart file: [abre, bom, linhas]
    arquivo,                  \* conteudoUtf8, as lines
    linhaIdx,                 \* index of the next line to read
    secaoAtual,               \* current section name ("" before the first)
    dadosChart,               \* the document being built
    chartProcessado,          \* "pendente"; then "ok" (dadosChart is returned),
                              \* "nullopt", or "excecao" (an exception left the parser)
    \* Jogo
    jogoRodando, jogoIniciado, chartCarregado, mensagemStatus,
    pontuacao,                \* [jogador -> pontuacao]
    teclasPresionadas,        \* [jogador -> set of keys]
    pistaPermiteAcertoNotaCurta, \* [jogador -> [pista -> BOOLEAN]]
    todasNotasMusicaMestre, notasJ1, notasJ2,
    musica,                   \* sf::Music: [status, offset (microseconds)]
    fase,                     \* position in the program: "carregarAudio", then
                              \* in Jogo::executar ("eventos", "atualizar"), or
                              \* "encerrado": main has returned
    \* The audio files and sf::Music::openFromFile
    audiosEmDisco,            \* the names of the files openFromFile can open
    tentativasAudio,          \* the names openFromFile was called with, in order
    audioAberto               \* the file musica has open: <<>> or <<name>>

varsTempo  == <<dadosChartOpt, calculadoraTempoOpt, consultas>>
varsParser == <<arquivoEmDisco, arquivo, linhaIdx, secaoAtual, dadosChart, chartProcessado>>
varsJogo   == <<jogoRodando, jogoIniciado, chartCarregado, mensagemStatus,
                pontuacao, teclasPresionadas, pistaPermiteAcertoNotaCurta,
                todasNotasMusicaMestre, notasJ1, notasJ2, musica, fase>>
varsAudio  == <<audiosEmDisco, tentativasAudio, audioAberto>>
vars       == <<varsTempo, varsParser, varsJogo, varsAudio>>

-----------------------------------------------------------------------------
(* Exact rational arithmetic standing for the program's doubles.           *)

Abs(x) == IF x < 0 THEN -x ELSE x
Min(a, b) == IF a < b THEN a ELSE b
Max(a, b) == IF a > b THEN a ELSE b

RECURSIVE MDC(_, _)
MDC(a, b) == IF b = 0 THEN a ELSE MDC(b, a % b)

Frac(n, d) ==
    LET g == MDC(Abs(n), Abs(d))
        s == IF d < 0 THEN -1 ELSE 1
    IN  IF n = 0 THEN <<0, 1>> ELSE <<(s * n) \div g, (s * d) \div g>>

Zero == <<0, 1>>
Inteiro(k) == <<k, 1>>

RSoma(x, y) ==
    LET g == MDC(x[2], y[2])
    IN  Frac(x[1] * (y[2] \div g) + y[1] * (x[2] \div g), (x[2] \div g) * y[2])

RVezes(x, y) ==
    LET g1 == MDC(Abs(x[1]), y[2])
        g2 == MDC(Abs(y[1]), x[2])
    IN  IF x[1] = 0 \/ y[1] = 0 THEN Zero
        ELSE Frac((x[1] \div g1) * (y[1] \div g2), (x[2] \div g2) * (y[2] \div g1))

\* x / y for y # 0
RDiv(x, y) == RVezes(x, Frac(y[2], y[1]))

RMenorIgual(x, y) == x[1] * y[2] <= y[1] * x[2]

-----------------------------------------------------------------------------
(* Program constants.                                                      *)

ALTURA_JANELA        == 1200
NUMERO_PISTAS        == 5
ALTURA_NOTA          == 45
Y_ZONA_ACERTO        == ALTURA_JANELA - 100
ALTURA_ZONA_ACERTO   == 75
TOLERANCIA_ACERTO_MS == 200
VELOCIDADE_QUEDA_NOTA_PPS == 800
INT_MAX              == 2147483647
RESOLUCAO_PADRAO     == 192
TEMPO_PADRAO         == 120000

-----------------------------------------------------------------------------
(* Chart::DadosChart                                                       *)

\* A default-constructed DadosChart.  mudancasTempo and assinaturasTempo are
\* std::map: functions from the tick; the remaining text fields (artist,
\* album, ...) are stored like nome and are left out.
DadosChartPadrao ==
    [nome             |-> "",
     streamMusica     |-> "",
     offset           |-> <<0, 1>>,
     resolucao        |-> RESOLUCAO_PADRAO,
     dificuldade      |-> 0,
     mudancasTempo    |-> <<>>,
     assinaturasTempo |-> <<>>,
     notas            |-> <<>>]

-----------------------------------------------------------------------------
(* Chart::MudancaTempo                                                     *)

ObterBPM(valorBruto) == Frac(valorBruto, 1000)

\* Mutant: the raw value taken for the BPM (the division by 1000 forgotten).
ObterMicrossegundosPorBatidaSemMilesimos(valorBruto) ==
    IF valorBruto <= 0 THEN Zero ELSE RDiv(Inteiro(60000000), Inteiro(valorBruto))

ObterMicrossegundosPorBatida(valorBruto) ==
    LET bpm == ObterBPM(valorBruto)
    IN  IF bpm[1] <= 0 THEN Zero ELSE RDiv(Inteiro(60000000), bpm)

-----------------------------------------------------------------------------
(* Chart::CalculadoraTempo                                                 *)

\* The elements of a finite set of integers in ascending order.
RECURSIVE EmOrdem(_)
EmOrdem(S) ==
    IF S = {} THEN <<>>
    ELSE LET m == CHOOSE x \in S : \A y \in S : x <= y
         IN  <<m>> \o EmOrdem(S \ {m})

\* Mutant: no 120 BPM event is put in front.
CalculadoraTempoSemSintese(chart) ==
    LET ticks == EmOrdem(DOMAIN chart.mudancasTempo)
    IN  [i \in 1..Len(ticks) |->
            [tick |-> ticks[i], valorBruto |-> chart.mudancasTempo[ticks[i]]]]

\* The constructor: the map's events in tick order, with a 120 BPM event
\* put in front when the list is empty or does not start at tick 0.
CalculadoraTempo(chart) ==
    LET ticks == EmOrdem(DOMAIN chart.mudancasTempo)
        ordenadas == [i \in 1..Len(ticks) |->
                        [tick |-> ticks[i], valorBruto |-> chart.mudancasTempo[ticks[i]]]]
    IN  IF Len(ordenadas) = 0 \/ ordenadas[1].tick # 0
        THEN <<[tick |-> 0, valorBruto |-> TEMPO_PADRAO]>> \o ordenadas
        ELSE ordenadas

\* Mutant: the segment is taken to include the next tempo tick.
ProximoTickTempoInclusivo(ms, i) ==
    IF i + 1 <= Len(ms) THEN ms[i + 1].tick + 1 ELSE INT_MAX

ProximoTickTempo(ms, i) == IF i + 1 <= Len(ms) THEN ms[i + 1].tick ELSE INT_MAX

\* The two break tests at the head of the loop body.
ParaAntesDoSegmento(ticksNoSegmento, tickAlvo, tickAtual) ==
    IF ticksNoSegmento <= 0 /\ tickAlvo > 0
    THEN tickAtual >= tickAlvo
    ELSE ticksNoSegmento < 0

SegundosPorTick(valorBruto, resolucao) ==
    RDiv(RDiv(ObterMicrossegundosPorBatida(valorBruto), Inteiro(resolucao)),
         Inteiro(1000000))

\* Mutant: the guard tests for a negative resolution only.
ResolucaoNegativa(chart) == chart.resolucao < 0

\* The guard of line 462.
ResolucaoZero(chart) == chart.resolucao = 0

\* Mutant: assignment instead of accumulation.
AcumularSemSoma(tempoEmSegundos, duracao) == duracao

\* tempoEmSegundos += duracaoSegmentoSegundos
Acumular(tempoEmSegundos, duracao) == RSoma(tempoEmSegundos, duracao)

\* The loop of ticksParaSegundos from iteration i on (i is 1-based).
RECURSIVE LacoTicks(_, _, _, _, _, _)
LacoTicks(ms, chart, tickAlvo, i, tempoEmSegundos, tickAtual) ==
    IF i > Len(ms) THEN RSoma(tempoEmSegundos, chart.offset)
    ELSE LET tickFinalSegmento == Min(tickAlvo, ProximoTickTempo(ms, i))
             ticksNoSegmento   == tickFinalSegmento - tickAtual
         IN  IF ParaAntesDoSegmento(ticksNoSegmento, tickAlvo, tickAtual)
             THEN RSoma(tempoEmSegundos, chart.offset)
             ELSE IF ResolucaoZero(chart)
             THEN RSoma(tempoEmSegundos, chart.offset)
             ELSE LET duracao == RVezes(Inteiro(ticksNoSegmento),
                                        SegundosPorTick(ms[i].valorBruto, chart.resolucao))
                      tempo2  == Acumular(tempoEmSegundos, duracao)
                  IN  IF tickFinalSegmento >= tickAlvo
                      THEN RSoma(tempo2, chart.offset)
                      ELSE LacoTicks(ms, chart, tickAlvo, i + 1, tempo2, tickFinalSegmento)

TicksParaSegundos(ms, chart, tickAlvo) == LacoTicks(ms, chart, tickAlvo, 1, Zero, 0)

-----------------------------------------------------------------------------
(* Units of the gameplay engine.                                           *)

\* Position units per pixel: one unit is the fall of one microsecond.
UnidadesPorPixel == 1000000 \div VELOCIDADE_QUEDA_NOTA_PPS
Px(n) == n * UnidadesPorPixel
\* raioCapeca = ALTURA_NOTA / 2.f
RaioCabeca == Px(ALTURA_NOTA) \div 2
\* static_cast<double>(TOLERANCIA_ACERTO_MS) / 1000.0, in microseconds
ToleranciaMicros == TOLERANCIA_ACERTO_MS * 1000
\* A rational number of seconds as whole microseconds (the charts of the
\* gameplay specification give whole numbers of microseconds).
EmMicros(r) == (r[1] * 1000000) \div r[2]

-----------------------------------------------------------------------------
(* Jogador                                                                 *)

Jogadores == {1, 2}
Pistas    == 0..(NUMERO_PISTAS - 1)

\* Mutant: player 2's map also holds player 1's key A.
MapeamentoTeclaPistaComTeclaComum(j) ==
    IF j = 1
    THEN [t \in {"A", "S", "D", "F", "G"} |->
            CASE t = "A" -> 0 [] t = "S" -> 1 [] t = "D" -> 2 [] t = "F" -> 3 [] OTHER -> 4]
    ELSE [t \in {"A", "J", "K", "L", "Semicolon", "Apostrophe"} |->
            CASE t = "A" -> 0 [] t = "J" -> 0 [] t = "K" -> 1 [] t = "L" -> 2
              [] t = "Semicolon" -> 3 [] OTHER -> 4]

\* mapeamentoTeclaPista, fixed by the constructor of Jogo
MapeamentoTeclaPista(j) ==
    IF j = 1
    THEN [t \in {"A", "S", "D", "F", "G"} |->
            CASE t = "A" -> 0 [] t = "S" -> 1 [] t = "D" -> 2 [] t = "F" -> 3 [] OTHER -> 4]
    ELSE [t \in {"J", "K", "L", "Semicolon", "Apostrophe"} |->
            CASE t = "J" -> 0 [] t = "K" -> 1 [] t = "L" -> 2 [] t = "Semicolon" -> 3
              [] OTHER -> 4]

NotasDe(j) == IF j = 1 THEN notasJ1 ELSE notasJ2

RECURSIVE SomaSeq(_)
SomaSeq(q) == IF q = <<>> THEN 0 ELSE Head(q) + SomaSeq(Tail(q))

-----------------------------------------------------------------------------
(* Nota, and the note timeline built by Jogo::carregarDadosChart           *)

\* Nota::Nota; cor and tempoAteProximaParticulaSustain only feed the
\* presentation and are left out.
NovaNota(notaChart, timestampSeg, fimSustainSeg, proprietario) ==
    [timestampSec       |-> timestampSeg,
     tickOriginal       |-> notaChart.tick,
     pista              |-> notaChart.traste,
     traste             |-> notaChart.traste,
     posicaoY           |-> 0,
     naTela             |-> FALSE,
     acertada           |-> FALSE,
     perdida            |-> FALSE,
     dono               |-> proprietario,
     ehNotaLonga        |-> notaChart.comprimento > 0,
     tempoFimSustainSec |-> fimSustainSeg,
     sustainAtivo       |-> FALSE,
     sustainCompleto    |-> FALSE]

\* Insertion of x before the first element with a larger timestamp.
RECURSIVE InserirPorTempo(_, _)
InserirPorTempo(q, x) ==
    IF q = <<>> THEN <<x>>
    ELSE IF x.timestampSec < Head(q).timestampSec THEN <<x>> \o q
    ELSE <<Head(q)>> \o InserirPorTempo(Tail(q), x)

RECURSIVE OrdenarPorTempo(_)
OrdenarPorTempo(q) ==
    IF q = <<>> THEN <<>>
    ELSE InserirPorTempo(OrdenarPorTempo(SubSeq(q, 1, Len(q) - 1)), q[Len(q)])

\* notaChart.tick + notaChart.comprimento is an addition of two ints (line 765).
\* When the sum does not fit an int the behaviour is undefined: the builds
\* either wrap around (two's complement) or trap.
TransbordaSoma(a, b) == a > 0 /\ b > INT_MAX - a

\* The sum as the addition instruction leaves it.
SomaDeInt(a, b) ==
    IF TransbordaSoma(a, b) THEN (a - INT_MAX - 1) + (b - INT_MAX - 1) ELSE a + b

\* Mutant: the end of a sustain is taken from its length alone.
NotasDaNotaChartFimPeloComprimento(ms, chart, notaChart) ==
    IF notaChart.traste < NUMERO_PISTAS
    THEN LET tempoNotaSec == EmMicros(TicksParaSegundos(ms, chart, notaChart.tick))
             tempoFimSustainSec ==
                 IF notaChart.comprimento > 0
                 THEN EmMicros(TicksParaSegundos(ms, chart, notaChart.comprimento))
                 ELSE tempoNotaSec
         IN  <<NovaNota(notaChart, tempoNotaSec, tempoFimSustainSec, 1),
               NovaNota(notaChart, tempoNotaSec, tempoFimSustainSec, 2)>>
    ELSE <<>>

\* Mutant: the lane of the chart note is not tested.
NotasDaNotaChartSemFiltro(ms, chart, notaChart) ==
    LET tempoNotaSec == EmMicros(TicksParaSegundos(ms, chart, notaChart.tick))
        tempoFimSustainSec ==
            IF notaChart.comprimento > 0
            THEN EmMicros(TicksParaSegundos(ms, chart,
                              SomaDeInt(notaChart.tick, notaChart.comprimento)))
            ELSE tempoNotaSec
    IN  <<NovaNota(notaChart, tempoNotaSec, tempoFimSustainSec, 1),
          NovaNota(notaChart, tempoNotaSec, tempoFimSustainSec, 2)>>

\* The notes of one chart note: one per player, when the lane exists.
NotasDaNotaChart(ms, chart, notaChart) ==
    IF notaChart.traste < NUMERO_PISTAS
    THEN LET tempoNotaSec == EmMicros(TicksParaSegundos(ms, chart, notaChart.tick))
             tempoFimSustainSec ==
                 IF notaChart.comprimento > 0
                 THEN EmMicros(TicksParaSegundos(ms, chart,
                                   SomaDeInt(notaChart.tick, notaChart.comprimento)))
                 ELSE tempoNotaSec
         IN  <<NovaNota(notaChart, tempoNotaSec, tempoFimSustainSec, 1),
               NovaNota(notaChart, tempoNotaSec, tempoFimSustainSec, 2)>>
    ELSE <<>>

RECURSIVE ConverterNotas(_, _, _)
ConverterNotas(ms, chart, notas) ==
    IF notas = <<>> THEN <<>>
    ELSE NotasDaNotaChart(ms, chart, Head(notas)) \o ConverterNotas(ms, chart, Tail(notas))

\* The master timeline.  std::ranges::sort leaves the order of notes of equal
\* timestamp unspecified; the master list is only read by iniciarJogo, which
\* splits it by owner and sorts again, so it is kept here in one order.
LinhaDoTempoMestre(ms, chart) == OrdenarPorTempo(ConverterNotas(ms, chart, chart.notas))

-----------------------------------------------------------------------------
(* Gameplay engine: per-note steps of Jogo::atualizar                      *)

AtualizarVisibilidadeNota(nota) ==
    LET cabecaPotencialmenteVisivel ==
            /\ nota.posicaoY + RaioCabeca > 0
            /\ nota.posicaoY - RaioCabeca < Px(ALTURA_JANELA)
        pixelsSustain == nota.tempoFimSustainSec - nota.timestampSec
        caldaPotencialmenteVisivel ==
            /\ nota.ehNotaLonga
            /\ nota.posicaoY > 0
            /\ nota.posicaoY - Max(0, pixelsSustain) < Px(ALTURA_JANELA)
        naTela1 == nota.naTela \/ cabecaPotencialmenteVisivel \/ caldaPotencialmenteVisivel
        saiuPorCima == nota.posicaoY + RaioCabeca < 0
        yVisualMaisAlto == IF nota.ehNotaLonga THEN nota.posicaoY - pixelsSustain
                           ELSE nota.posicaoY - RaioCabeca
        saiuPorBaixo == ~saiuPorCima /\ yVisualMaisAlto > Px(ALTURA_JANELA)
    IN  IF ~naTela1 THEN nota
        ELSE [nota EXCEPT
                !.naTela  = ~saiuPorCima /\ ~saiuPorBaixo,
                !.perdida =
                    \/ nota.perdida
                    \/ (saiuPorCima \/ saiuPorBaixo) /\ ~nota.acertada
                    \/ saiuPorBaixo /\ nota.ehNotaLonga /\ nota.acertada
                         /\ ~nota.sustainCompleto]

\* Mutant: the test of the short notes is left out.
VerificarNotaPerdidaSoSustain(nota, tempoMusicaSec) ==
    IF nota.ehNotaLonga /\ tempoMusicaSec > nota.tempoFimSustainSec + ToleranciaMicros
    THEN [nota EXCEPT !.perdida = TRUE]
    ELSE nota

VerificarNotaPerdida(nota, tempoMusicaSec) ==
    IF ~nota.ehNotaLonga
          /\ nota.posicaoY > Px(Y_ZONA_ACERTO + ALTURA_ZONA_ACERTO) + RaioCabeca
    THEN [nota EXCEPT !.perdida = TRUE]
    ELSE IF nota.ehNotaLonga
              /\ tempoMusicaSec > nota.tempoFimSustainSec + ToleranciaMicros
    THEN [nota EXCEPT !.perdida = TRUE]
    ELSE nota

\* yAlvo = Y_ZONA_ACERTO - tempoAteAcerto * VELOCIDADE_QUEDA_NOTA_PPS
PosicaoAlvo(nota, tempoMusicaSec) ==
    Px(Y_ZONA_ACERTO) - (nota.timestampSec - tempoMusicaSec)

\* The body of the loop of atualizarLogicaJogador.
AtualizarLogicaNota(nota, tempoMusicaSec) ==
    LET n1 == [nota EXCEPT !.posicaoY = PosicaoAlvo(nota, tempoMusicaSec)]
        n2 == AtualizarVisibilidadeNota(n1)
    IN  IF nota.perdida THEN n2
        ELSE IF n2.naTela /\ ~n2.acertada THEN VerificarNotaPerdida(n2, tempoMusicaSec)
        ELSE n2

AtualizarLogicaJogador(notasJogador, tempoMusicaSec) ==
    [i \in 1..Len(notasJogador) |-> AtualizarLogicaNota(notasJogador[i], tempoMusicaSec)]

\* Mutant: the sustain does not look at the keys that are held.
TeclaPresionadaParaPistaSemTecla(j, pista, teclas) == pista \in Pistas

TeclaPresionadaParaPista(j, pista, teclas) ==
    \E t \in DOMAIN MapeamentoTeclaPista(j) :
        MapeamentoTeclaPista(j)[t] = pista /\ t \in teclas

\* Mutant: the end of the sustain is not tested.
DentroPeriodoSustainSemFim(nota, tempoMusicaSec) ==
    tempoMusicaSec >= nota.timestampSec

DentroPeriodoSustain(nota, tempoMusicaSec) ==
    tempoMusicaSec >= nota.timestampSec /\ tempoMusicaSec <= nota.tempoFimSustainSec

\* The test of line 1145, on the value sustainAtivo has at that line.
CompletaSustain(nota, ativo, tempoMusicaSec) ==
    tempoMusicaSec > nota.tempoFimSustainSec /\ ativo

\* Mutant: a held sustain pays 2 points per tick.
AtualizarSustainNotaPontoDobrado(j, nota, teclas, tempoMusicaSec) ==
    IF ~nota.ehNotaLonga \/ nota.sustainCompleto \/ nota.perdida
          \/ ~nota.naTela \/ ~nota.acertada
    THEN [nota |-> nota, pontos |-> 0]
    ELSE LET ativo == /\ TeclaPresionadaParaPista(j, nota.pista, teclas)
                      /\ DentroPeriodoSustain(nota, tempoMusicaSec)
             completa == CompletaSustain(nota, ativo, tempoMusicaSec)
         IN  [nota   |-> [nota EXCEPT !.sustainAtivo = ativo /\ ~completa,
                                      !.sustainCompleto = completa],
              pontos |-> (IF ativo THEN 2 ELSE 0) + (IF completa THEN 20 ELSE 0)]

\* The body of the loop of atualizarSustainParaJogador: the note after the
\* step and the points it adds.
AtualizarSustainNota(j, nota, teclas, tempoMusicaSec) ==
    IF ~nota.ehNotaLonga \/ nota.sustainCompleto \/ nota.perdida
          \/ ~nota.naTela \/ ~nota.acertada
    THEN [nota |-> nota, pontos |-> 0]
    ELSE LET ativo == /\ TeclaPresionadaParaPista(j, nota.pista, teclas)
                      /\ DentroPeriodoSustain(nota, tempoMusicaSec)
             completa == CompletaSustain(nota, ativo, tempoMusicaSec)
         IN  [nota   |-> [nota EXCEPT !.sustainAtivo = ativo /\ ~completa,
                                      !.sustainCompleto = completa],
              pontos |-> (IF ativo THEN 1 ELSE 0) + (IF completa THEN 20 ELSE 0)]

AtualizarSustainParaJogador(j, notas, teclas, tempoMusicaSec) ==
    LET r == [i \in 1..Len(notas) |->
                 AtualizarSustainNota(j, notas[i], teclas, tempoMusicaSec)]
    IN  [notas  |-> [i \in 1..Len(notas) |-> r[i].nota],
         pontos |-> SomaSeq([i \in 1..Len(notas) |-> r[i].pontos])]

\* Mutant: notes still in play do not keep the session open.
TemNotasAtivasNunca(notas) == FALSE

TemNotasAtivas(notas) ==
    \E i \in 1..Len(notas) :
        notas[i].naTela /\ ~notas[i].acertada /\ ~notas[i].perdida

-----------------------------------------------------------------------------
(* Gameplay engine: hit detection                                          *)

\* Mutant: the band is the hit zone alone, without a note height on each side.
NaFaixaDeAcertoSemMargem(nota) ==
    /\ nota.posicaoY >= Px(Y_ZONA_ACERTO)
    /\ nota.posicaoY <= Px(Y_ZONA_ACERTO + ALTURA_ZONA_ACERTO)

NaFaixaDeAcerto(nota) ==
    /\ nota.posicaoY >= Px(Y_ZONA_ACERTO - ALTURA_NOTA)
    /\ nota.posicaoY <= Px(Y_ZONA_ACERTO + ALTURA_ZONA_ACERTO + ALTURA_NOTA)

\* Mutant: the timing test is left out of the hit condition.
DentroDaToleranciaSemTeste(nota, tempoMusicaSec) == TRUE

DentroDaTolerancia(nota, tempoMusicaSec) ==
    Abs(nota.timestampSec - tempoMusicaSec) <= ToleranciaMicros

\* Mutant: a note that is Missed can still be hit.
NotaAcertavelMesmoPerdida(nota, pistaAlvo, tempoMusicaSec) ==
    /\ nota.pista = pistaAlvo
    /\ ~nota.acertada
    /\ nota.naTela
    /\ NaFaixaDeAcerto(nota)
    /\ DentroDaTolerancia(nota, tempoMusicaSec)

\* The condition of lines 1290-1293.
NotaAcertavel(nota, pistaAlvo, tempoMusicaSec) ==
    /\ nota.pista = pistaAlvo
    /\ ~nota.acertada
    /\ ~nota.perdida
    /\ nota.naTela
    /\ NaFaixaDeAcerto(nota)
    /\ DentroDaTolerancia(nota, tempoMusicaSec)

\* Mutant: a sustain's initial hit is paid like a short note.
PontosDoAcertoSempreDez(nota) == 10

PontosDoAcerto(nota) == IF nota.ehNotaLonga THEN 5 ELSE 10

\* The value verificarAcertoNota returns (line 1314), whatever was hit.
RetornoVerificarAcertoNota(acertouNotaCurta) == FALSE

\* Mutant: the scan stops at the first note it marks Hit.
VerificarAcertoNotaAtePrimeira(notas, pistaAlvo, tempoMusicaSec) ==
    LET acertaveis == { i \in 1..Len(notas) :
                          NotaAcertavel(notas[i], pistaAlvo, tempoMusicaSec) }
        acerta(i) == i \in acertaveis /\ \A k \in acertaveis : i <= k
    IN  [notas   |-> [i \in 1..Len(notas) |->
                        IF acerta(i) THEN [notas[i] EXCEPT !.acertada = TRUE]
                        ELSE notas[i]],
         pontos  |-> SomaSeq([i \in 1..Len(notas) |->
                        IF acerta(i) THEN PontosDoAcerto(notas[i]) ELSE 0]),
         retorno |-> RetornoVerificarAcertoNota(
                        \E i \in 1..Len(notas) : acerta(i) /\ ~notas[i].ehNotaLonga)]

\* verificarAcertoNota: the notes after the scan, the points added and the
\* value returned.
VerificarAcertoNota(notas, pistaAlvo, tempoMusicaSec) ==
    LET acerta(i) == NotaAcertavel(notas[i], pistaAlvo, tempoMusicaSec)
    IN  [notas   |-> [i \in 1..Len(notas) |->
                        IF acerta(i) THEN [notas[i] EXCEPT !.acertada = TRUE]
                        ELSE notas[i]],
         pontos  |-> SomaSeq([i \in 1..Len(notas) |->
                        IF acerta(i) THEN PontosDoAcerto(notas[i]) ELSE 0]),
         retorno |-> RetornoVerificarAcertoNota(
                        \E i \in 1..Len(notas) : acerta(i) /\ ~notas[i].ehNotaLonga)]

\* Mutant: the key is recorded as pressed before it is looked up.
ProcessarTeclaPressJogadorInsereSempre(j, tecla, teclas, permite, notas, tempoMusicaSec) ==
    IF tecla \notin DOMAIN MapeamentoTeclaPista(j)
    THEN [teclas |-> teclas \cup {tecla}, permite |-> permite, notas |-> notas,
          pontos |-> 0]
    ELSE LET pista == MapeamentoTeclaPista(j)[tecla]
             v == VerificarAcertoNota(notas, pista, tempoMusicaSec)
         IN  IF permite[pista]
             THEN [teclas  |-> teclas \cup {tecla},
                   permite |-> IF v.retorno THEN [permite EXCEPT ![pista] = FALSE]
                               ELSE permite,
                   notas   |-> v.notas,
                   pontos  |-> v.pontos]
             ELSE [teclas |-> teclas \cup {tecla}, permite |-> permite,
                   notas |-> notas, pontos |-> 0]

\* The lambda processarTeclaPressJogador: keys, flags, notes and points of
\* player j after a press of tecla.
ProcessarTeclaPressJogador(j, tecla, teclas, permite, notas, tempoMusicaSec) ==
    IF tecla \notin DOMAIN MapeamentoTeclaPista(j)
    THEN [teclas |-> teclas, permite |-> permite, notas |-> notas, pontos |-> 0]
    ELSE LET pista == MapeamentoTeclaPista(j)[tecla]
             v == VerificarAcertoNota(notas, pista, tempoMusicaSec)
         IN  IF permite[pista]
             THEN [teclas  |-> teclas \cup {tecla},
                   permite |-> IF v.retorno THEN [permite EXCEPT ![pista] = FALSE]
                               ELSE permite,
                   notas   |-> v.notas,
                   pontos  |-> v.pontos]
             ELSE [teclas |-> teclas \cup {tecla}, permite |-> permite,
                   notas |-> notas, pontos |-> 0]

\* Mutant: the release of a lane key forgets every key the player holds.
ProcessarTeclaReleaseJogadorLimpaTodas(j, tecla, teclas, permite) ==
    IF tecla \notin DOMAIN MapeamentoTeclaPista(j)
    THEN [teclas |-> teclas, permite |-> permite]
    ELSE [teclas  |-> {},
          permite |-> [permite EXCEPT ![MapeamentoTeclaPista(j)[tecla]] = TRUE]]

\* The lambda processarTeclaReleaseJogador.
ProcessarTeclaReleaseJogador(j, tecla, teclas, permite) ==
    IF tecla \notin DOMAIN MapeamentoTeclaPista(j)
    THEN [teclas |-> teclas, permite |-> permite]
    ELSE [teclas  |-> teclas \ {tecla},
          permite |-> [permite EXCEPT ![MapeamentoTeclaPista(j)[tecla]] = TRUE]]

-----------------------------------------------------------------------------
(* Chart::ParserChart.  A line of the file is modelled after trimming, by  *)
(* what the parser's tests and regular expressions make of it:             *)
(*   [tipo |-> "vazia"]                      blank, or starting with //    *)
(*   [tipo |-> "secao", nome |-> n]          [n]                           *)
(*   [tipo |-> "chave"]                      { or }                        *)
(*   [tipo |-> "B", tick, valor]             tick = B valor                *)
(*   [tipo |-> "TS", tick, numerador, denominador]   tick = TS n [d]       *)
(*                                           (denominador <<>> when absent)*)
(*   [tipo |-> "N", tick, traste, comprimento]       tick = N lane length  *)
(*   [tipo |-> "CV", chave, valor]           Key = Value; valor is         *)
(*       [texto |-> the text, numero |-> <<>> when the text does not start *)
(*       with a number, else <<that number>>, resto |-> the text after the *)
(*       leading number ("" when the whole text is the number)]            *)

SecoesDeNotas == {"ExpertSingle", "HardSingle", "MediumSingle", "EasySingle"}

\* Mutant: insert_or_assign instead of emplace.
MapEmplaceSobrescreve(m, k, v) == [x \in DOMAIN m \cup {k} |-> IF x = k THEN v ELSE m[x]]

\* std::map::emplace: nothing is inserted when the key is present.
MapEmplace(m, k, v) ==
    IF k \in DOMAIN m THEN m
    ELSE [x \in DOMAIN m \cup {k} |-> IF x = k THEN v ELSE m[x]]

\* The denominator of a TS line (lines 390-391).
Denominador(linha) ==
    LET d == IF linha.denominador # <<>> THEN linha.denominador[1] ELSE 4
    IN  IF d = 0 THEN 4 ELSE d

\* Mutant: the exception is caught inside the loop and the parse goes on with
\* the field's default.
ResultadoDaExcecaoEngolida == "pendente"

\* An exception thrown in the loop leaves fazerParsingChart, which has no
\* handler: no document is returned.
ResultadoDaExcecao == "excecao"

\* std::stod / std::stoi throw when the text does not start with a number;
\* text after a leading number is ignored.
Lanca(linha) ==
    /\ linha.chave \in {"Offset", "Resolution", "Difficulty", "PreviewStart", "PreviewEnd"}
    /\ linha.valor.numero = <<>>

\* std::stoi: the integer part of the leading number.
ParteInteira(r) == IF r[1] >= 0 THEN r[1] \div r[2] ELSE -((-r[1]) \div r[2])

\* processarLinhaNaSecao in section Song, for a line that does not throw.
ProcessarLinhaSong(chart, linha) ==
    IF linha.tipo # "CV" THEN chart
    ELSE CASE linha.chave = "Name"        -> [chart EXCEPT !.nome = linha.valor.texto]
           [] linha.chave = "MusicStream" -> [chart EXCEPT !.streamMusica = linha.valor.texto]
           [] linha.chave = "Offset"      -> [chart EXCEPT !.offset = linha.valor.numero[1]]
           [] linha.chave = "Resolution"  ->
                  [chart EXCEPT !.resolucao = ParteInteira(linha.valor.numero[1])]
           [] linha.chave = "Difficulty"  ->
                  [chart EXCEPT !.dificuldade = ParteInteira(linha.valor.numero[1])]
           [] OTHER -> chart

\* processarLinhaNaSecao in section SyncTrack.
ProcessarLinhaSyncTrack(chart, linha) ==
    IF linha.tipo = "B"
    THEN [chart EXCEPT !.mudancasTempo = MapEmplace(@, linha.tick, linha.valor)]
    ELSE IF linha.tipo = "TS"
    THEN [chart EXCEPT !.assinaturasTempo =
            MapEmplace(@, linha.tick,
                       [numerador |-> linha.numerador, denominador |-> Denominador(linha)])]
    ELSE chart

\* processarLinhaNaSecao in a note-track section.
ProcessarLinhaNotas(chart, linha) ==
    IF linha.tipo = "N"
    THEN [chart EXCEPT !.notas = Append(@, [tick |-> linha.tick, traste |-> linha.traste,
                                            comprimento |-> linha.comprimento])]
    ELSE chart

ProcessarLinhaNaSecao(chart, secao, linha) ==
    IF secao = "Song" THEN ProcessarLinhaSong(chart, linha)
    ELSE IF secao = "SyncTrack" THEN ProcessarLinhaSyncTrack(chart, linha)
    ELSE IF secao \in SecoesDeNotas THEN ProcessarLinhaNotas(chart, linha)
    ELSE chart

\* Mutant: the notes are returned in the order of the file.
OrdenacoesSemOrdenar(q) == {q}

\* The orders std::ranges::sort may leave the notes in: every arrangement that
\* is ascending by tick.
OrdenacoesPorTick(q) ==
    { [i \in 1..Len(q) |-> q[f[i]]] :
        f \in { g \in [1..Len(q) -> 1..Len(q)] :
                  /\ \A a, b \in 1..Len(q) : a # b => g[a] # g[b]
                  /\ \A a, b \in 1..Len(q) : a < b => q[g[a]].tick <= q[g[b]].tick } }

\* A chart file: whether it can be opened, whether its content starts with the
\* UTF-8 byte order mark, and the lines that follow.
ArquivoQueNaoAbre == [abre |-> FALSE, bom |-> FALSE, linhas |-> <<>>]

\* Mutant: the byte order mark is left in the content; it makes the first
\* line one that the loop skips.
LerArquivoUtf8ComBOM(arq) ==
    IF ~arq.abre THEN <<>>
    ELSE IF arq.bom
    THEN <<[tipo |-> "vazia"]>> \o (IF arq.linhas = <<>> THEN <<>> ELSE Tail(arq.linhas))
    ELSE arq.linhas

\* lerArquivoUtf8: the content as lines, "" (no line) for a file that cannot
\* be opened, the byte order mark removed.
LerArquivoUtf8(arq) == IF ~arq.abre THEN <<>> ELSE arq.linhas

\* One pass of the getline loop on the parser's locals
\* [secao, chart, resultado].
PassoDoLaco(e, linha) ==
    IF linha.tipo = "vazia" THEN e
    ELSE IF linha.tipo = "secao" THEN [e EXCEPT !.secao = linha.nome]
    ELSE IF linha.tipo = "chave" \/ e.secao = "" THEN e
    ELSE IF e.secao = "Song" /\ linha.tipo = "CV" /\ Lanca(linha)
    THEN [e EXCEPT !.resultado = ResultadoDaExcecao]
    ELSE [e EXCEPT !.chart = ProcessarLinhaNaSecao(e.chart, e.secao, linha)]

RECURSIVE LacoDeLinhas(_, _)
LacoDeLinhas(e, linhas) ==
    IF linhas = <<>> \/ e.resultado # "pendente" THEN e
    ELSE LacoDeLinhas(PassoDoLaco(e, Head(linhas)), Tail(linhas))

\* fazerParsingChart up to the sort of the notes: how it ends and the
\* document it has built.
FazerParsingChart(arq) ==
    LET conteudoUtf8 == LerArquivoUtf8(arq)
        e == LacoDeLinhas([secao |-> "", chart |-> DadosChartPadrao,
                           resultado |-> "pendente"], conteudoUtf8)
    IN  IF conteudoUtf8 = <<>>
        THEN [resultado |-> "nullopt", chart |-> DadosChartPadrao]
        ELSE IF e.resultado = "pendente"
        THEN [resultado |-> "ok", chart |-> e.chart]
        ELSE [resultado |-> e.resultado, chart |-> e.chart]

-----------------------------------------------------------------------------
(* Values of the variables a specification does not use.                   *)

ParserOcioso ==
    /\ arquivoEmDisco = ArquivoQueNaoAbre
    /\ arquivo = <<>>
    /\ linhaIdx = 1
    /\ secaoAtual = ""
    /\ dadosChart = DadosChartPadrao
    /\ chartProcessado = "pendente"

TempoOcioso ==
    /\ dadosChartOpt = <<>>
    /\ calculadoraTempoOpt = <<>>
    /\ consultas = <<>>

JogoOcioso ==
    /\ jogoRodando = FALSE
    /\ jogoIniciado = FALSE
    /\ chartCarregado = FALSE
    /\ mensagemStatus = "Carregando chart..."
    /\ pontuacao = [j \in {1, 2} |-> 0]
    /\ teclasPresionadas = [j \in {1, 2} |-> {}]
    /\ pistaPermiteAcertoNotaCurta = [j \in {1, 2} |-> [p \in 0..(NUMERO_PISTAS - 1) |-> TRUE]]
    /\ todasNotasMusicaMestre = <<>>
    /\ notasJ1 = <<>>
    /\ notasJ2 = <<>>
    /\ musica = [status |-> "Stopped", offset |-> 0]
    /\ fase = "eventos"

AudioOcioso ==
    /\ audiosEmDisco = {}
    /\ tentativasAudio = <<>>
    /\ audioAberto = <<>>

-----------------------------------------------------------------------------
(* SpecTempo: the tempo calculator applied to bounded charts.              *)

MaxTick == 5

TicksTempo    == {0, 2, 384}
ValoresTempo  == {0, 120000, 150000}
Resolucoes    == {0, 2, RESOLUCAO_PADRAO}
Offsets       == {Zero, <<-1, 4>>}
TicksAlvo     == (0..MaxTick) \cup {192, 384, 576}

MapasTempo == UNION {[D -> ValoresTempo] : D \in SUBSET TicksTempo}

ChartsTempo ==
    { [DadosChartPadrao EXCEPT !.offset = o, !.resolucao = r, !.mudancasTempo = m] :
        o \in Offsets, r \in Resolucoes, m \in MapasTempo }

InitTempo ==
    /\ \E chart \in ChartsTempo :
          /\ dadosChartOpt = <<chart>>
          /\ calculadoraTempoOpt = <<CalculadoraTempo(chart)>>
    /\ consultas = <<>>
    /\ ParserOcioso
    /\ JogoOcioso
    /\ AudioOcioso

\* One call of ticksParaSegundos; the last two calls are kept.
Consultar(t) ==
    LET c == [tick |-> t,
              seg  |-> TicksParaSegundos(calculadoraTempoOpt[1], dadosChartOpt[1], t)]
    IN  /\ consultas' = IF Len(consultas) = 0 THEN <<c>>
                        ELSE <<consultas[Len(consultas)], c>>
        /\ UNCHANGED <<dadosChartOpt, calculadoraTempoOpt, varsParser, varsJogo, varsAudio>>

NextTempo == \E t \in TicksAlvo : Consultar(t)

SpecTempo == InitTempo /\ [][NextTempo]_vars

-----------------------------------------------------------------------------
(* Spec: the game (Jogo) from its construction on.                         *)

\* The most points a player collects from sustain ticks in one session.
MaxPontosSustain == 3

\* The chart of the gameplay specification: 120 BPM, resolution 192; two short
\* notes 62.5 ms apart in lane 0 (1.0 s and 1.0625 s), a sustain in lane 1
\* (1.25 s to 1.5 s) and a note of a lane that does not exist.
LinhasDoChartDoJogo ==
    << [tipo |-> "secao", nome |-> "SyncTrack"],
       [tipo |-> "chave"],
       [tipo |-> "B", tick |-> 0, valor |-> TEMPO_PADRAO],
       [tipo |-> "chave"],
       [tipo |-> "secao", nome |-> "ExpertSingle"],
       [tipo |-> "chave"],
       [tipo |-> "N", tick |-> 0,   traste |-> 5, comprimento |-> 0],
       [tipo |-> "N", tick |-> 384, traste |-> 0, comprimento |-> 0],
       [tipo |-> "N", tick |-> 408, traste |-> 0, comprimento |-> 0],
       [tipo |-> "N", tick |-> 480, traste |-> 1, comprimento |-> 96],
       [tipo |-> "chave"] >>

\* A second chart: 120 BPM, resolution 192, one sustain of lane 4 from tick 192
\* to tick 384 (0.5 s to 1.0 s).
LinhasDoChartDeSustain ==
    << [tipo |-> "secao", nome |-> "SyncTrack"],
       [tipo |-> "B", tick |-> 0, valor |-> TEMPO_PADRAO],
       [tipo |-> "secao", nome |-> "ExpertSingle"],
       [tipo |-> "N", tick |-> 192, traste |-> 4, comprimento |-> 192] >>

\* The chart files the program is started with: one that cannot be opened, an
\* empty one, one that holds only a byte order mark, one with a malformed
\* number in [Song], and the two charts above.
ArquivosDoJogo ==
    { ArquivoQueNaoAbre,
      [abre |-> TRUE, bom |-> FALSE, linhas |-> <<>>],
      [abre |-> TRUE, bom |-> TRUE,  linhas |-> <<>>],
      [abre |-> TRUE, bom |-> FALSE,
       linhas |-> << [tipo |-> "secao", nome |-> "Song"],
                     [tipo |-> "CV", chave |-> "Offset",
                      valor |-> [texto |-> "notanumber", numero |-> <<>>,
                                 resto |-> "notanumber"]] >> \o LinhasDoChartDoJogo],
      [abre |-> TRUE, bom |-> FALSE, linhas |-> LinhasDoChartDoJogo],
      [abre |-> TRUE, bom |-> FALSE, linhas |-> LinhasDoChartDeSustain] }

\* The documents fazerParsingChart may return for a file (none when it
\* returns no document or throws).
ChartsDoArquivo(arq) ==
    LET r == FazerParsingChart(arq)
    IN  IF r.resultado = "ok"
        THEN { [r.chart EXCEPT !.notas = q] : q \in OrdenacoesPorTick(r.chart.notas) }
        ELSE {}

ChartsJogo == UNION { ChartsDoArquivo(arq) : arq \in ArquivosDoJogo }

\* The name carregarAudio opens first: streamMusica, or "song.ogg" when the
\* chart names no stream.
NomeArquivoAudio(chart) ==
    IF chart.streamMusica = "" THEN "song.ogg" ELSE chart.streamMusica

\* nomeBase: the name up to its last '.', the whole name when it has none
\* (for the names used here).
NomeBase(nome) ==
    CASE nome = "song.ogg"   -> "song"
      [] nome = "musica.mp3" -> "musica"
      [] OTHER               -> nome

\* Mutant: .wav is tried before .ogg.
ExtensoesForaDeOrdem == <<".wav", ".ogg", ".flac", ".mp3">>

\* extensoes
Extensoes == <<".ogg", ".wav", ".flac", ".mp3">>

\* The names carregarAudio may call openFromFile with, in order: the primary
\* name, then nomeBase with each extension.
CandidatosDeAudio(nome) ==
    <<nome>> \o [i \in 1..Len(Extensoes) |-> NomeBase(nome) \o Extensoes[i]]

\* Mutant: every candidate is tried, whatever opened before.
FimDasTentativasSemParar(candidatos, discos) == Len(candidatos)

\* The index of the last call of openFromFile: the first candidate that opens
\* (the test of line 792 and std::ranges::any_of stop there), the last
\* candidate when none opens.
FimDasTentativas(candidatos, discos) ==
    LET abrem == { i \in 1..Len(candidatos) : candidatos[i] \in discos }
    IN  IF abrem = {} THEN Len(candidatos)
        ELSE CHOOSE i \in abrem : \A k \in abrem : i <= k

\* carregarAudio: the calls of openFromFile and the file left open.
CarregarAudio(nome, discos) ==
    LET candidatos == CandidatosDeAudio(nome)
        n == FimDasTentativas(candidatos, discos)
        abrem == { i \in 1..n : candidatos[i] \in discos }
    IN  [tentativas |-> SubSeq(candidatos, 1, n),
         aberto     |-> IF abrem = {} THEN <<>>
                        ELSE <<candidatos[CHOOSE i \in abrem : \A k \in abrem : i >= k]>>]

\* The audio files next to the game's chart: none, or song.ogg.
AudiosDoJogo == { {}, {"song.ogg"} }

\* Mutant: the opening of the audio file is not tested.
ChartCarregadoSemAudio(encontrado) == TRUE

\* chartCarregado as carregarAudio leaves it.
ChartCarregadoAposAudio(encontrado) == encontrado

\* The playback positions (microseconds) the audio clock is observed at.
Instantes ==
    { 0, 800001, 1000000, 1062500, 1121876, 1199999, 1200001,
      1250000, 1500000, 1500001, 1625001 }

\* The key events fed to the game.
TeclasEntrada == {"Space", "A", "S", "J", "X"}

Mensagem(texto) == [texto |-> texto, j1 |-> 0, j2 |-> 0]

\* main and Jogo::Jogo: carregarDadosChart and carregarAudio, for each chart
\* file and each set of audio files.  arquivoEmDisco
\* keeps the file and chartProcessado the way its parse ended: "ok", "nullopt"
\* or "excecao".  An exception of the parser leaves the
\* constructor and is caught in main, which returns 1: executar never runs.
InitJogo ==
    /\ \E arq \in ArquivosDoJogo, discos \in AudiosDoJogo :
       \E chartProcessadoOpt \in
              IF FazerParsingChart(arq).resultado = "ok"
              THEN {<<c>> : c \in ChartsDoArquivo(arq)} ELSE {<<>>} :
          /\ arquivoEmDisco = arq
          /\ audiosEmDisco = discos
          /\ dadosChartOpt = chartProcessadoOpt
          /\ IF chartProcessadoOpt = <<>>
             THEN /\ calculadoraTempoOpt = <<>>
                  /\ todasNotasMusicaMestre = <<>>
                  /\ chartCarregado = FALSE
                  /\ tentativasAudio = <<>>
                  /\ audioAberto = <<>>
                  /\ chartProcessado = FazerParsingChart(arq).resultado
                  /\ IF chartProcessado = "excecao"
                     THEN /\ mensagemStatus =
                                Mensagem("Fazendo parsing do arquivo de chart...")
                          /\ fase = "encerrado"
                     ELSE /\ mensagemStatus = Mensagem("Erro: Falha no parsing do chart")
                          /\ fase = "eventos"
             ELSE /\ calculadoraTempoOpt = <<CalculadoraTempo(chartProcessadoOpt[1])>>
                  /\ todasNotasMusicaMestre =
                         LinhaDoTempoMestre(CalculadoraTempo(chartProcessadoOpt[1]),
                                            chartProcessadoOpt[1])
                  /\ LET r == CarregarAudio(NomeArquivoAudio(chartProcessadoOpt[1]), discos)
                     IN  /\ tentativasAudio = r.tentativas
                         /\ audioAberto = r.aberto
                         /\ chartCarregado = ChartCarregadoAposAudio(r.aberto # <<>>)
                         /\ mensagemStatus =
                                IF r.aberto # <<>>
                                THEN Mensagem("Pressione ESPACO para Iniciar!")
                                ELSE Mensagem("Erro: Arquivo de audio nao encontrado")
                  /\ chartProcessado = "ok"
                  /\ fase = "eventos"
    /\ consultas = <<>>
    /\ arquivo = <<>>
    /\ linhaIdx = 1
    /\ secaoAtual = ""
    /\ dadosChart = DadosChartPadrao
    /\ jogoRodando = FALSE
    /\ jogoIniciado = FALSE
    /\ pontuacao = [j \in Jogadores |-> 0]
    /\ teclasPresionadas = [j \in Jogadores |-> {}]
    /\ pistaPermiteAcertoNotaCurta = [j \in Jogadores |-> [p \in Pistas |-> TRUE]]
    /\ notasJ1 = <<>>
    /\ notasJ2 = <<>>
    /\ musica = [status |-> "Stopped", offset |-> 0]

NotasDoDono(notas, j) == SelectSeq(notas, LAMBDA n : n.dono = j)

\* The orders std::ranges::sort may leave a list in: every arrangement of its
\* elements that is ascending by timestamp.
OrdenacoesPorTempo(q) ==
    { [i \in 1..Len(q) |-> q[f[i]]] :
        f \in { g \in [1..Len(q) -> 1..Len(q)] :
                  /\ \A a, b \in 1..Len(q) : a # b => g[a] # g[b]
                  /\ \A a, b \in 1..Len(q) :
                        a < b => q[g[a]].timestampSec <= q[g[b]].timestampSec } }

\* Mutant: the players' state is not reset.
IniciarJogoSemZerar ==
    /\ UNCHANGED <<pontuacao, teclasPresionadas, pistaPermiteAcertoNotaCurta>>
    /\ notasJ1' \in OrdenacoesPorTempo(NotasDoDono(todasNotasMusicaMestre, 1))
    /\ notasJ2' \in OrdenacoesPorTempo(NotasDoDono(todasNotasMusicaMestre, 2))
    /\ jogoIniciado' = TRUE
    /\ jogoRodando' = TRUE
    /\ mensagemStatus' = Mensagem("Tocando...")
    /\ musica' = [status |-> "Playing", offset |-> 0]

\* Jogo::iniciarJogo past its guard.
IniciarJogo ==
    /\ pontuacao' = [j \in Jogadores |-> 0]
    /\ teclasPresionadas' = [j \in Jogadores |-> {}]
    /\ pistaPermiteAcertoNotaCurta' =
           [j \in Jogadores |-> [p \in Pistas |-> TRUE]]
    /\ notasJ1' \in OrdenacoesPorTempo(NotasDoDono(todasNotasMusicaMestre, 1))
    /\ notasJ2' \in OrdenacoesPorTempo(NotasDoDono(todasNotasMusicaMestre, 2))
    /\ jogoIniciado' = TRUE
    /\ jogoRodando' = TRUE
    /\ mensagemStatus' = Mensagem("Tocando...")
    /\ musica' = [status |-> "Playing", offset |-> 0]

\* Mutant: Space starts a session whenever a chart is loaded.
TeclaIniciaJogoSemGuarda(tecla) == tecla = "Space" /\ chartCarregado

\* The test of line 1231 (the guard of iniciarJogo, line 832, repeats it).
TeclaIniciaJogo(tecla) == tecla = "Space" /\ ~jogoIniciado /\ chartCarregado

\* Jogo::processarTeclaPress, called by processarEventos.
ProcessarTeclaPress(tecla) ==
    /\ fase = "eventos"
    /\ IF TeclaIniciaJogo(tecla)
       THEN IniciarJogo
       ELSE IF ~jogoRodando
       THEN UNCHANGED <<jogoRodando, jogoIniciado, mensagemStatus, pontuacao,
                        teclasPresionadas, pistaPermiteAcertoNotaCurta,
                        notasJ1, notasJ2, musica>>
       ELSE LET r1 == ProcessarTeclaPressJogador(1, tecla, teclasPresionadas[1],
                         pistaPermiteAcertoNotaCurta[1], notasJ1, musica.offset)
                r2 == ProcessarTeclaPressJogador(2, tecla, teclasPresionadas[2],
                         pistaPermiteAcertoNotaCurta[2], notasJ2, musica.offset)
            IN  /\ teclasPresionadas' = [j \in Jogadores |->
                                            IF j = 1 THEN r1.teclas ELSE r2.teclas]
                /\ pistaPermiteAcertoNotaCurta' =
                       [j \in Jogadores |-> IF j = 1 THEN r1.permite ELSE r2.permite]
                /\ notasJ1' = r1.notas
                /\ notasJ2' = r2.notas
                /\ pontuacao' = [j \in Jogadores |->
                                    pontuacao[j] + (IF j = 1 THEN r1.pontos ELSE r2.pontos)]
                /\ UNCHANGED <<jogoRodando, jogoIniciado, mensagemStatus, musica>>
    /\ UNCHANGED <<chartCarregado, todasNotasMusicaMestre, fase, varsTempo, varsParser, varsAudio>>

\* Jogo::processarTeclaRelease, called by processarEventos.
ProcessarTeclaRelease(tecla) ==
    /\ fase = "eventos"
    /\ IF ~jogoRodando
       THEN UNCHANGED <<teclasPresionadas, pistaPermiteAcertoNotaCurta>>
       ELSE LET r1 == ProcessarTeclaReleaseJogador(1, tecla, teclasPresionadas[1],
                         pistaPermiteAcertoNotaCurta[1])
                r2 == ProcessarTeclaReleaseJogador(2, tecla, teclasPresionadas[2],
                         pistaPermiteAcertoNotaCurta[2])
            IN  /\ teclasPresionadas' = [j \in Jogadores |->
                                            IF j = 1 THEN r1.teclas ELSE r2.teclas]
                /\ pistaPermiteAcertoNotaCurta' =
                       [j \in Jogadores |-> IF j = 1 THEN r1.permite ELSE r2.permite]
    /\ UNCHANGED <<jogoRodando, jogoIniciado, chartCarregado, mensagemStatus, pontuacao,
                   todasNotasMusicaMestre, notasJ1, notasJ2, musica, fase,
                   varsTempo, varsParser, varsAudio>>

\* processarEventos returns: the event queue is empty.
FimEventos ==
    /\ fase = "eventos"
    /\ fase' = "atualizar"
    /\ UNCHANGED <<jogoRodando, jogoIniciado, chartCarregado, mensagemStatus, pontuacao,
                   teclasPresionadas, pistaPermiteAcertoNotaCurta,
                   todasNotasMusicaMestre, notasJ1, notasJ2, musica,
                   varsTempo, varsParser, varsAudio>>

\* The points player j has that do not come from hits.
PontosDeSustain(j) ==
    pontuacao[j] - SomaSeq([i \in 1..Len(NotasDe(j)) |->
                               IF NotasDe(j)[i].acertada
                               THEN PontosDoAcerto(NotasDe(j)[i]) ELSE 0])

\* One pass of the fixed-timestep loop of executar with jogoRodando:
\* Jogo::atualizar.
Atualizar ==
    /\ fase = "atualizar"
    /\ jogoRodando
    /\ LET tempoAtualMusicaSec == musica.offset
           l1 == AtualizarLogicaJogador(notasJ1, tempoAtualMusicaSec)
           l2 == AtualizarLogicaJogador(notasJ2, tempoAtualMusicaSec)
           s1 == AtualizarSustainParaJogador(1, l1, teclasPresionadas[1],
                                             tempoAtualMusicaSec)
           s2 == AtualizarSustainParaJogador(2, l2, teclasPresionadas[2],
                                             tempoAtualMusicaSec)
       IN  /\ s1.pontos = 0 \/ PontosDeSustain(1) < MaxPontosSustain
           /\ s2.pontos = 0 \/ PontosDeSustain(2) < MaxPontosSustain
           /\ notasJ1' = s1.notas
           /\ notasJ2' = s2.notas
           /\ pontuacao' = [j \in Jogadores |->
                               pontuacao[j] + (IF j = 1 THEN s1.pontos ELSE s2.pontos)]
           /\ jogoRodando' =
                  ~( /\ musica.status # "Playing"
                     /\ jogoIniciado
                     /\ ~TemNotasAtivas(s1.notas)
                     /\ ~TemNotasAtivas(s2.notas) )
    /\ UNCHANGED <<jogoIniciado, chartCarregado, mensagemStatus, teclasPresionadas,
                   pistaPermiteAcertoNotaCurta, todasNotasMusicaMestre, musica, fase,
                   varsTempo, varsParser, varsAudio>>

\* Mutant: the scores are cleared when the end of the game is announced.
VerificarFimDeJogoZeraPontuacao ==
    /\ fase = "atualizar"
    /\ fase' = "eventos"
    /\ IF jogoIniciado /\ ~jogoRodando /\ mensagemStatus.texto # "Fim de Jogo!"
       THEN /\ mensagemStatus' = [texto |-> "Fim de Jogo!", j1 |-> pontuacao[1],
                                  j2 |-> pontuacao[2]]
            /\ jogoIniciado' = FALSE
            /\ pontuacao' = [j \in Jogadores |-> 0]
       ELSE UNCHANGED <<mensagemStatus, jogoIniciado, pontuacao>>
    /\ UNCHANGED <<jogoRodando, chartCarregado, teclasPresionadas,
                   pistaPermiteAcertoNotaCurta, todasNotasMusicaMestre, notasJ1, notasJ2,
                   musica, varsTempo, varsParser, varsAudio>>

\* Mutant: the end of an iteration forgets the keys that are held.
VerificarFimDeJogoLimpaTeclas ==
    /\ fase = "atualizar"
    /\ fase' = "eventos"
    /\ teclasPresionadas' = [j \in Jogadores |-> {}]
    /\ IF jogoIniciado /\ ~jogoRodando /\ mensagemStatus.texto # "Fim de Jogo!"
       THEN /\ mensagemStatus' = [texto |-> "Fim de Jogo!", j1 |-> pontuacao[1],
                                  j2 |-> pontuacao[2]]
            /\ jogoIniciado' = FALSE
       ELSE UNCHANGED <<mensagemStatus, jogoIniciado>>
    /\ UNCHANGED <<jogoRodando, chartCarregado, pontuacao,
                   pistaPermiteAcertoNotaCurta, todasNotasMusicaMestre, notasJ1, notasJ2,
                   musica, varsTempo, varsParser, varsAudio>>

\* Mutant: the end of the game is announced and the session stays started.
VerificarFimDeJogoSemEncerrar ==
    /\ fase = "atualizar"
    /\ fase' = "eventos"
    /\ IF jogoIniciado /\ ~jogoRodando /\ mensagemStatus.texto # "Fim de Jogo!"
       THEN mensagemStatus' = [texto |-> "Fim de Jogo!", j1 |-> pontuacao[1],
                               j2 |-> pontuacao[2]]
       ELSE UNCHANGED mensagemStatus
    /\ UNCHANGED <<jogoIniciado, jogoRodando, chartCarregado, pontuacao, teclasPresionadas,
                   pistaPermiteAcertoNotaCurta, todasNotasMusicaMestre, notasJ1, notasJ2,
                   musica, varsTempo, varsParser, varsAudio>>

\* The rest of an iteration of executar after the update loop: the end-of-game
\* check (lines 676-682) and renderizar, which changes no state of the game.
VerificarFimDeJogo ==
    /\ fase = "atualizar"
    /\ fase' = "eventos"
    /\ IF jogoIniciado /\ ~jogoRodando /\ mensagemStatus.texto # "Fim de Jogo!"
       THEN /\ mensagemStatus' = [texto |-> "Fim de Jogo!", j1 |-> pontuacao[1],
                                  j2 |-> pontuacao[2]]
            /\ jogoIniciado' = FALSE
       ELSE UNCHANGED <<mensagemStatus, jogoIniciado>>
    /\ UNCHANGED <<jogoRodando, chartCarregado, pontuacao, teclasPresionadas,
                   pistaPermiteAcertoNotaCurta, todasNotasMusicaMestre, notasJ1, notasJ2,
                   musica, varsTempo, varsParser, varsAudio>>

\* The audio stream plays on: getPlayingOffset grows.
AudioAvanca ==
    /\ musica.status = "Playing"
    /\ \E t \in Instantes :
          /\ t > musica.offset
          /\ musica' = [musica EXCEPT !.offset = t]
    /\ UNCHANGED <<jogoRodando, jogoIniciado, chartCarregado, mensagemStatus, pontuacao,
                   teclasPresionadas, pistaPermiteAcertoNotaCurta,
                   todasNotasMusicaMestre, notasJ1, notasJ2, fase,
                   varsTempo, varsParser, varsAudio>>

\* The audio stream reaches its end: the status is Stopped; the position a
\* stopped stream reports is the library's (it stays or returns to 0).
AudioTermina ==
    /\ musica.status = "Playing"
    /\ \E t \in {0, musica.offset} : musica' = [status |-> "Stopped", offset |-> t]
    /\ UNCHANGED <<jogoRodando, jogoIniciado, chartCarregado, mensagemStatus, pontuacao,
                   teclasPresionadas, pistaPermiteAcertoNotaCurta,
                   todasNotasMusicaMestre, notasJ1, notasJ2, fase,
                   varsTempo, varsParser, varsAudio>>

Next ==
    \/ \E tecla \in TeclasEntrada : ProcessarTeclaPress(tecla)
    \/ \E tecla \in TeclasEntrada : ProcessarTeclaRelease(tecla)
    \/ FimEventos
    \/ Atualizar
    \/ VerificarFimDeJogo
    \/ AudioAvanca
    \/ AudioTermina

Spec == InitJogo /\ [][Next]_vars

\* The game started with the chart of one sustain and its audio file, and fed
\* the keys Space and G (lane 4 of player 1).
TeclasDaSessaoJusta == {"Space", "G"}

InitJusta ==
    /\ InitJogo
    /\ arquivoEmDisco = [abre |-> TRUE, bom |-> FALSE, linhas |-> LinhasDoChartDeSustain]
    /\ audiosEmDisco = {"song.ogg"}

NextJusta ==
    \/ \E tecla \in TeclasDaSessaoJusta : ProcessarTeclaPress(tecla)
    \/ \E tecla \in TeclasDaSessaoJusta : ProcessarTeclaRelease(tecla)
    \/ FimEventos
    \/ Atualizar
    \/ VerificarFimDeJogo
    \/ AudioAvanca
    \/ AudioTermina

\* The scheduling of executar (lines 660-686): processarEventos returns when
\* the event queue is empty, the fixed-timestep loop runs atualizar again and
\* again as the clock advances, and every iteration reaches its end.  Key
\* events and the progress of the audio have no fairness.
SpecJusta ==
    /\ InitJusta
    /\ [][NextJusta]_vars
    /\ WF_vars(FimEventos)
    /\ SF_vars(Atualizar)
    /\ WF_vars(VerificarFimDeJogo)

-----------------------------------------------------------------------------
(* SpecAudio: Jogo::carregarAudio, one call of openFromFile at a time.     *)

\* The values of MusicStream in [Song]: none, a name with an extension and a
\* name without one.
NomesDeAudio == {"", "musica.mp3", "musica"}

\* A chart file that names its audio stream.
ArquivoComAudio(nome) ==
    [abre |-> TRUE, bom |-> FALSE,
     linhas |-> << [tipo |-> "secao", nome |-> "Song"],
                   [tipo |-> "CV", chave |-> "MusicStream",
                    valor |-> [texto |-> nome, numero |-> <<>>, resto |-> nome]] >>]

\* carregarDadosChart has parsed the chart and built the (empty) timeline, and
\* calls carregarAudio (line 780).
InitAudio ==
    /\ \E nome \in NomesDeAudio :
          LET r == FazerParsingChart(ArquivoComAudio(nome))
          IN  /\ arquivoEmDisco = ArquivoComAudio(nome)
              /\ chartProcessado = r.resultado
              /\ dadosChartOpt = <<r.chart>>
              /\ calculadoraTempoOpt = <<CalculadoraTempo(r.chart)>>
              /\ audiosEmDisco \in
                     SUBSET { CandidatosDeAudio(NomeArquivoAudio(r.chart))[i] :
                                i \in 1..(Len(Extensoes) + 1) }
    /\ tentativasAudio = <<>>
    /\ audioAberto = <<>>
    /\ consultas = <<>>
    /\ arquivo = <<>>
    /\ linhaIdx = 1
    /\ secaoAtual = ""
    /\ dadosChart = DadosChartPadrao
    /\ jogoRodando = FALSE
    /\ jogoIniciado = FALSE
    /\ chartCarregado = FALSE
    /\ mensagemStatus = Mensagem("Carregando audio...")
    /\ pontuacao = [j \in Jogadores |-> 0]
    /\ teclasPresionadas = [j \in Jogadores |-> {}]
    /\ pistaPermiteAcertoNotaCurta = [j \in Jogadores |-> [p \in Pistas |-> TRUE]]
    /\ todasNotasMusicaMestre = <<>>
    /\ notasJ1 = <<>>
    /\ notasJ2 = <<>>
    /\ musica = [status |-> "Stopped", offset |-> 0]
    /\ fase = "carregarAudio"

\* One call of musica.openFromFile (line 792, or line 801 inside any_of).
AbrirArquivoDeAudio ==
    /\ fase = "carregarAudio"
    /\ LET candidatos == CandidatosDeAudio(NomeArquivoAudio(dadosChartOpt[1]))
           n == Len(tentativasAudio)
       IN  /\ n < FimDasTentativas(candidatos, audiosEmDisco)
           /\ tentativasAudio' = Append(tentativasAudio, candidatos[n + 1])
           /\ audioAberto' = IF candidatos[n + 1] \in audiosEmDisco
                             THEN <<candidatos[n + 1]>> ELSE <<>>
    /\ UNCHANGED <<audiosEmDisco, varsTempo, varsParser, varsJogo>>

\* The rest of carregarAudio, after the last call of openFromFile
\* (lines 804-821).
ConcluirCarregarAudio ==
    /\ fase = "carregarAudio"
    /\ Len(tentativasAudio) =
           FimDasTentativas(CandidatosDeAudio(NomeArquivoAudio(dadosChartOpt[1])),
                            audiosEmDisco)
    /\ chartCarregado' = ChartCarregadoAposAudio(audioAberto # <<>>)
    /\ mensagemStatus' = IF audioAberto # <<>>
                         THEN Mensagem("Pressione ESPACO para Iniciar!")
                         ELSE Mensagem("Erro: Arquivo de audio nao encontrado")
    /\ fase' = "eventos"
    /\ UNCHANGED <<jogoRodando, jogoIniciado, pontuacao, teclasPresionadas,
                   pistaPermiteAcertoNotaCurta, todasNotasMusicaMestre, notasJ1, notasJ2,
                   musica, varsTempo, varsParser, varsAudio>>

NextAudio == AbrirArquivoDeAudio \/ ConcluirCarregarAudio

SpecAudio == InitAudio /\ [][NextAudio]_vars

-----------------------------------------------------------------------------
(* SpecParser: fazerParsingChart on bounded files.                         *)

MaxLinhas == 4

LinhasPossiveis ==
    { [tipo |-> "secao", nome |-> "SyncTrack"],
      [tipo |-> "secao", nome |-> "ExpertSingle"],
      [tipo |-> "secao", nome |-> "EasySingle"],
      [tipo |-> "secao", nome |-> "Song"],
      [tipo |-> "B", tick |-> 0, valor |-> 120000],
      [tipo |-> "B", tick |-> 0, valor |-> 150000],
      [tipo |-> "TS", tick |-> 0, numerador |-> 3, denominador |-> <<>>],
      [tipo |-> "TS", tick |-> 0, numerador |-> 6, denominador |-> <<0>>],
      [tipo |-> "N", tick |-> 384, traste |-> 0, comprimento |-> 0],
      [tipo |-> "N", tick |-> 384, traste |-> 2, comprimento |-> 0],
      [tipo |-> "N", tick |-> 192, traste |-> 1, comprimento |-> 96],
      [tipo |-> "CV", chave |-> "Offset",
       valor |-> [texto |-> "notanumber", numero |-> <<>>, resto |-> "notanumber"]],
      [tipo |-> "CV", chave |-> "Resolution",
       valor |-> [texto |-> "96", numero |-> <<(<<96, 1>>)>>, resto |-> ""]],
      [tipo |-> "CV", chave |-> "Resolution",
       valor |-> [texto |-> "48abc", numero |-> <<(<<48, 1>>)>>, resto |-> "abc"]] }

Arquivos == UNION { [1..n -> LinhasPossiveis] : n \in 0..MaxLinhas }

\* The files given to the parser: one that cannot be opened, the files
\* without a byte order mark, and the files of at most MaxLinhasComBOM lines
\* after a byte order mark.
MaxLinhasComBOM == 1

ArquivosEmDisco ==
    {ArquivoQueNaoAbre}
    \cup { [abre |-> TRUE, bom |-> FALSE, linhas |-> l] : l \in Arquivos }
    \cup { [abre |-> TRUE, bom |-> TRUE, linhas |-> l] :
             l \in UNION { [1..n -> LinhasPossiveis] : n \in 0..MaxLinhasComBOM } }

InitParser ==
    /\ arquivoEmDisco \in ArquivosEmDisco
    /\ arquivo = LerArquivoUtf8(arquivoEmDisco)
    /\ linhaIdx = 1
    /\ secaoAtual = ""
    /\ dadosChart = DadosChartPadrao
    /\ chartProcessado = "pendente"
    /\ TempoOcioso
    /\ JogoOcioso
    /\ AudioOcioso

\* lerArquivoUtf8 gave no content: no document.
ArquivoVazio ==
    /\ chartProcessado = "pendente"
    /\ arquivo = <<>>
    /\ chartProcessado' = "nullopt"
    /\ UNCHANGED <<arquivoEmDisco, arquivo, linhaIdx, secaoAtual, dadosChart,
                   varsTempo, varsJogo, varsAudio>>

\* One pass of the getline loop.
LerLinha ==
    /\ chartProcessado = "pendente"
    /\ linhaIdx <= Len(arquivo)
    /\ LET e == PassoDoLaco([secao |-> secaoAtual, chart |-> dadosChart,
                             resultado |-> chartProcessado], arquivo[linhaIdx])
       IN  /\ linhaIdx' = linhaIdx + 1
           /\ secaoAtual' = e.secao
           /\ dadosChart' = e.chart
           /\ chartProcessado' = e.resultado
    /\ UNCHANGED <<arquivoEmDisco, arquivo, varsTempo, varsJogo, varsAudio>>

\* End of file: the notes are sorted by tick and the document is returned.
RetornarChart ==
    /\ chartProcessado = "pendente"
    /\ arquivo # <<>>
    /\ linhaIdx > Len(arquivo)
    /\ dadosChart' \in { [dadosChart EXCEPT !.notas = q] :
                           q \in OrdenacoesPorTick(dadosChart.notas) }
    /\ chartProcessado' = "ok"
    /\ UNCHANGED <<arquivoEmDisco, arquivo, linhaIdx, secaoAtual, varsTempo, varsJogo, varsAudio>>

NextParser == ArquivoVazio \/ LerLinha \/ RetornarChart

SpecParser == InitParser /\ [][NextParser]_vars

-----------------------------------------------------------------------------
(* Claims about the tempo calculator (checked under SpecTempo).            *)

ChartAtual == dadosChartOpt[1]

UmTempoSo(chart) ==
    /\ DOMAIN chart.mudancasTempo = {0}
    /\ chart.mudancasTempo[0] > 0
    /\ chart.resolucao > 0

\* offset + (tick / resolution) * (60 / BPM)
FormulaUmTempo(chart, tick) ==
    RSoma(chart.offset,
          RVezes(Frac(tick, chart.resolucao),
                 RDiv(Inteiro(60), Frac(chart.mudancasTempo[0], 1000))))

\* C1: for a chart whose only tempo event is at tick 0 with BPM > 0 and whose
\* resolution is > 0, every call ticksParaSegundos(tick), tick >= 0, returns
\* offset + (tick / resolution) * (60 / BPM); 120 BPM, resolution 192,
\* offset 0 gives 0.5 s at tick 192.
C1_UmTempo ==
    UmTempoSo(ChartAtual) =>
        \A k \in 1..Len(consultas) :
            /\ consultas[k].seg = FormulaUmTempo(ChartAtual, consultas[k].tick)
            /\ ( /\ ChartAtual.mudancasTempo[0] = 120000
                 /\ ChartAtual.resolucao = 192
                 /\ ChartAtual.offset = Zero
                 /\ consultas[k].tick = 192 ) => consultas[k].seg = <<1, 2>>

C1_Witness ==
    /\ UmTempoSo(ChartAtual)
    /\ ChartAtual.mudancasTempo[0] = 120000
    /\ ChartAtual.resolucao = 192
    /\ ChartAtual.offset = Zero
    /\ Len(consultas) = 2
    /\ consultas[1] = [tick |-> 3, seg |-> <<1, 128>>]
    /\ consultas[2] = [tick |-> 192, seg |-> <<1, 2>>]

\* The number of ticks of [0, T) that fall in the segment starting at tempo
\* tick k: [k, next tempo tick), the last segment being unbounded.
TicksDoSegmento(K, k, T) ==
    Cardinality({t \in 0..(T - 1) :
                    /\ k <= t
                    /\ \A j \in K : j > k => t < j})

RECURSIVE SomaSegmentos(_, _, _, _)
SomaSegmentos(chart, K, resto, T) ==
    IF resto = {} THEN Zero
    ELSE LET k == CHOOSE x \in resto : TRUE
             parcela == RDiv(RVezes(Inteiro(TicksDoSegmento(K, k, T)),
                                    RDiv(Inteiro(60), Frac(chart.mudancasTempo[k], 1000))),
                             Inteiro(chart.resolucao))
         IN  RSoma(parcela, SomaSegmentos(chart, K, resto \ {k}, T))

TemposPositivosDesdeZero(chart) ==
    /\ 0 \in DOMAIN chart.mudancasTempo
    /\ \A k \in DOMAIN chart.mudancasTempo : chart.mudancasTempo[k] > 0
    /\ chart.resolucao > 0

\* C2: with tempo events at ticks 0 = k0 < k1 < ... < kn (BPM > 0) and
\* resolution > 0, ticksParaSegundos(T) is offset plus the sum over the segments
\* of (ticks of [0, T) inside [k_i, k_i+1)) * (60 / BPM_i) / resolution; a target
\* equal to a tempo-change tick is timed by the earlier segments only.
C2_Integral ==
    TemposPositivosDesdeZero(ChartAtual) =>
        \A c \in 1..Len(consultas) :
            consultas[c].seg =
                RSoma(ChartAtual.offset,
                      SomaSegmentos(ChartAtual, DOMAIN ChartAtual.mudancasTempo,
                                    DOMAIN ChartAtual.mudancasTempo, consultas[c].tick))

\* Two segments of different rates, one query on the boundary and one past it.
C2_Witness ==
    /\ ChartAtual.resolucao = 192
    /\ ChartAtual.offset = Zero
    /\ DOMAIN ChartAtual.mudancasTempo = {0, 384}
    /\ ChartAtual.mudancasTempo[0] = 120000
    /\ ChartAtual.mudancasTempo[384] = 150000
    /\ Len(consultas) = 2
    /\ consultas[1] = [tick |-> 384, seg |-> <<1, 1>>]
    /\ consultas[2] = [tick |-> 576, seg |-> <<7, 5>>]

\* C3: with resolution > 0 and at least one tempo event, ticksParaSegundos is
\* non-decreasing: a <= b implies ticksParaSegundos(a) <= ticksParaSegundos(b),
\* across tempo changes and segments of BPM 0 included.
C3_Monotona ==
    ( /\ ChartAtual.resolucao > 0
      /\ DOMAIN ChartAtual.mudancasTempo # {}
      /\ Len(consultas) = 2 ) =>
        /\ consultas[1].tick <= consultas[2].tick
              => RMenorIgual(consultas[1].seg, consultas[2].seg)
        /\ consultas[2].tick <= consultas[1].tick
              => RMenorIgual(consultas[2].seg, consultas[1].seg)

\* Queries on both sides of a tempo change into a segment of BPM 0.
C3_Witness ==
    /\ ChartAtual.resolucao = 2
    /\ DOMAIN ChartAtual.mudancasTempo = {0, 2}
    /\ ChartAtual.mudancasTempo[0] = 150000
    /\ ChartAtual.mudancasTempo[2] = 0
    /\ Len(consultas) = 2
    /\ consultas[1].tick = 1
    /\ consultas[2].tick = 4
    /\ consultas[1].seg # consultas[2].seg

PrimeiroTickTempo(chart) ==
    CHOOSE k \in DOMAIN chart.mudancasTempo : \A j \in DOMAIN chart.mudancasTempo : k <= j

SegundoTickTempo(chart) ==
    LET K == DOMAIN chart.mudancasTempo \ {PrimeiroTickTempo(chart)}
    IN  IF K = {} THEN INT_MAX ELSE CHOOSE k \in K : \A j \in K : k <= j

\* C4: with no tempo event, or a first tempo event at a tick > 0, the calculator
\* behaves as if a 120 BPM event stood at tick 0: ticksParaSegundos(0) = offset,
\* ticks up to the first real event are timed at 120 BPM, later ticks (up to the
\* second event) at the first event's BPM.
C4_TempoPadrao ==
    (0 \notin DOMAIN ChartAtual.mudancasTempo) =>
        \A c \in 1..Len(consultas) :
            LET t == consultas[c].tick
                chart == ChartAtual
                a120 == RSoma(chart.offset, RVezes(Frac(t, chart.resolucao), <<1, 2>>))
            IN  /\ t = 0 => consultas[c].seg = chart.offset
                /\ chart.resolucao > 0 =>
                    IF DOMAIN chart.mudancasTempo = {} THEN consultas[c].seg = a120
                    ELSE LET k1 == PrimeiroTickTempo(chart)
                             v1 == chart.mudancasTempo[k1]
                         IN  /\ t <= k1 => consultas[c].seg = a120
                             /\ (t > k1 /\ t <= SegundoTickTempo(chart) /\ v1 > 0) =>
                                   consultas[c].seg =
                                     RSoma(RSoma(chart.offset,
                                                 RVezes(Frac(k1, chart.resolucao), <<1, 2>>)),
                                           RVezes(Frac(t - k1, chart.resolucao),
                                                  Frac(60000, v1)))

\* First event at tick 384 with 150 BPM: tick 192 at 120 BPM, tick 576 past it.
C4_Witness ==
    /\ ChartAtual.resolucao = 192
    /\ ChartAtual.offset = <<-1, 4>>
    /\ DOMAIN ChartAtual.mudancasTempo = {384}
    /\ ChartAtual.mudancasTempo[384] = 150000
    /\ Len(consultas) = 2
    /\ consultas[1] = [tick |-> 0, seg |-> <<-1, 4>>]
    /\ consultas[2] = [tick |-> 576, seg |-> <<23, 20>>]

\* C5: with resolution 0, ticksParaSegundos(tick) returns exactly offset for
\* every tick >= 0 (the guard fires in the first segment, before any time is
\* accumulated, and nothing is divided by the resolution).
C5_ResolucaoZero ==
    ChartAtual.resolucao = 0 =>
        \A c \in 1..Len(consultas) : consultas[c].seg = ChartAtual.offset

C5_Witness ==
    /\ ChartAtual.resolucao = 0
    /\ ChartAtual.offset = <<-1, 4>>
    /\ DOMAIN ChartAtual.mudancasTempo = {0, 2}
    /\ ChartAtual.mudancasTempo[0] = 120000
    /\ Len(consultas) = 2
    /\ consultas[1].tick = 0
    /\ consultas[2] = [tick |-> 384, seg |-> <<-1, 4>>]

-----------------------------------------------------------------------------
(* Claims about the gameplay engine (checked under Spec).                  *)

IndicesNotas(j) == 1..Len(NotasDe(j))

\* The hit band and the tolerance window as the specification words them.
FaixaDoEnunciado(nota) ==
    /\ nota.posicaoY >= Px(Y_ZONA_ACERTO - ALTURA_NOTA)
    /\ nota.posicaoY <= Px(Y_ZONA_ACERTO + ALTURA_ZONA_ACERTO + ALTURA_NOTA)

JanelaDoEnunciado(nota, t) ==
    /\ nota.timestampSec - t <= 200000
    /\ t - nota.timestampSec <= 200000

\* The step is a press, during a running session, of a key of player j mapped
\* to the lane of the note.
PressDaPista(j, nota) ==
    /\ jogoRodando
    /\ \E tecla \in TeclasEntrada \cap DOMAIN MapeamentoTeclaPista(j) :
          /\ MapeamentoTeclaPista(j)[tecla] = nota.pista
          /\ ProcessarTeclaPress(tecla)

\* C6: a sustain note that was hit and whose key is held over the whole
\* interval becomes sustainCompleto, with the 20-point bonus: at the update tick
\* at which the playback position has passed tempoFimSustainSec, a hit sustain
\* that was active at the tick before, is still on screen and whose key is still
\* held is marked complete and its owner gains 20 points.
C6_SustainSeguradoCompleta ==
    [][ \A j \in Jogadores : \A i \in IndicesNotas(j) :
          LET nota == NotasDe(j)[i]
              vista == AtualizarLogicaNota(nota, musica.offset)
          IN  ( /\ Atualizar
                /\ nota.ehNotaLonga /\ nota.acertada /\ nota.sustainAtivo
                /\ ~nota.sustainCompleto
                /\ TeclaPresionadaParaPista(j, nota.pista, teclasPresionadas[j])
                /\ musica.offset > nota.tempoFimSustainSec
                /\ vista.naTela /\ ~vista.perdida )
              => /\ NotasDe(j)'[i].sustainCompleto
                 /\ pontuacao'[j] = pontuacao[j] + 20 ]_vars

\* No sustain note is ever complete (what the code does instead of C6).
NenhumSustainCompleto ==
    \A j \in Jogadores : \A i \in IndicesNotas(j) : ~NotasDe(j)[i].sustainCompleto

\* C7 as claimed: a press at playback time t hits every on-screen, unhit,
\* unmissed note of the pressed lane with |timestampSec - t| <= 0.200 s.
C7_AcertoNaJanela ==
    [][ \A j \in Jogadores : \A i \in IndicesNotas(j) :
          LET nota == NotasDe(j)[i]
          IN  ( /\ PressDaPista(j, nota)
                /\ nota.naTela /\ ~nota.acertada /\ ~nota.perdida
                /\ JanelaDoEnunciado(nota, musica.offset) )
              => NotasDe(j)'[i].acertada ]_vars

\* C7 amended: a press at playback time t, during a running session, hits
\* every on-screen, unhit, unmissed note of the pressed lane of that player
\* with |timestampSec - t| <= 0.200 s whose last computed screen position lies
\* in the hit band, and the owner gains the points of each such note.
C7_AcertoNaJanelaENaFaixa ==
    [][ \A j \in Jogadores : \A i \in IndicesNotas(j) :
          LET nota == NotasDe(j)[i]
          IN  ( /\ PressDaPista(j, nota)
                /\ nota.naTela /\ ~nota.acertada /\ ~nota.perdida
                /\ JanelaDoEnunciado(nota, musica.offset)
                /\ FaixaDoEnunciado(nota) )
              => /\ NotasDe(j)'[i].acertada
                 /\ pontuacao'[j] >= pontuacao[j] + (IF nota.ehNotaLonga THEN 5 ELSE 10) ]_vars

\* The sustain of player 1 hit 50.001 ms early, at screen position 1060 px,
\* with nothing else hit.
C7_Witness ==
    /\ jogoRodando
    /\ musica = [status |-> "Playing", offset |-> 1199999]
    /\ \E i \in IndicesNotas(1) :
          /\ notasJ1[i].ehNotaLonga /\ notasJ1[i].acertada
          /\ notasJ1[i].posicaoY = PosicaoAlvo(notasJ1[i], 1199999)
    /\ pontuacao[1] = 5
    /\ "S" \in teclasPresionadas[1]

\* C8: a note becomes Hit only in a press, during a running session, of a key
\* of its owner mapped to its lane, and only if before the press it was on
\* screen, not Hit, not Missed, its last computed position was in the hit band
\* and |timestampSec - t| <= 0.200 s; a press changes a score only by the
\* points of the notes it hits (so a press 0.200001 s off the only candidate
\* hits nothing and awards nothing).
C8_SoAcertaNaJanela ==
    [][ \A j \in Jogadores :
          /\ \A i \in IndicesNotas(j) :
                LET nota == NotasDe(j)[i]
                IN  ( /\ Len(NotasDe(j)') = Len(NotasDe(j))
                      /\ ~nota.acertada
                      /\ NotasDe(j)'[i].acertada )
                    => /\ fase = "eventos"
                       /\ PressDaPista(j, nota)
                       /\ nota.naTela /\ ~nota.perdida
                       /\ FaixaDoEnunciado(nota)
                       /\ JanelaDoEnunciado(nota, musica.offset)
          /\ (fase = "eventos" /\ jogoRodando) =>
                pontuacao'[j] - pontuacao[j] =
                    SomaSeq([i \in IndicesNotas(j) |->
                                IF ~NotasDe(j)[i].acertada /\ NotasDe(j)'[i].acertada
                                THEN (IF NotasDe(j)[i].ehNotaLonga THEN 5 ELSE 10)
                                ELSE 0]) ]_vars

\* Player 2 has hit the first short note 199.999 ms late, from a position
\* computed in the band; player 1 has hit nothing.
C8_Witness ==
    /\ jogoRodando
    /\ musica = [status |-> "Playing", offset |-> 1199999]
    /\ notasJ2[1].acertada /\ ~notasJ2[1].ehNotaLonga
    /\ notasJ2[1].timestampSec = 1000000
    /\ notasJ2[1].posicaoY = PosicaoAlvo(notasJ2[1], 1062500)
    /\ ~notasJ2[2].acertada
    /\ pontuacao = [j \in Jogadores |-> IF j = 2 THEN 10 ELSE 0]

\* C9: when a press hits a short note in a lane, the lane's flag
\* pistaPermiteAcertoNotaCurta is false after the press (and stays false until
\* the key is released), so that further presses of the held key hit nothing.
C9_BloqueioAposAcertoCurto ==
    [][ \A j \in Jogadores : \A i \in IndicesNotas(j) :
          LET nota == NotasDe(j)[i]
          IN  ( /\ PressDaPista(j, nota)
                /\ ~nota.ehNotaLonga
                /\ ~nota.acertada
                /\ NotasDe(j)'[i].acertada )
              => ~pistaPermiteAcertoNotaCurta'[j][nota.pista] ]_vars

\* What the code does instead of C9: every flag is true in every state.
PermiteSempre ==
    \A j \in Jogadores : \A p \in Pistas : pistaPermiteAcertoNotaCurta[j][p]

-----------------------------------------------------------------------------
(* Claims about the chart parser (SpecParser).                             *)

\* The section a line of the file lies in: the name on the nearest section
\* header above it ("" when there is none).
SecaoDaLinha(arq, i) ==
    LET cabecalhos == { k \in 1..(i - 1) : arq[k].tipo = "secao" }
    IN  IF cabecalhos = {} THEN ""
        ELSE arq[CHOOSE k \in cabecalhos : \A m \in cabecalhos : m <= k].nome

\* The lines of kind tipo for a tick inside [SyncTrack].
LinhasSyncTrack(arq, tipo, tick) ==
    { i \in 1..Len(arq) :
        /\ arq[i].tipo = tipo
        /\ arq[i].tick = tick
        /\ SecaoDaLinha(arq, i) = "SyncTrack" }

TicksSyncTrack(arq, tipo) ==
    { arq[i].tick : i \in { k \in 1..Len(arq) :
                              arq[k].tipo = tipo /\ SecaoDaLinha(arq, k) = "SyncTrack" } }

Primeira(linhas) == CHOOSE i \in linhas : \A k \in linhas : i <= k
Ultima(linhas) == CHOOSE i \in linhas : \A k \in linhas : k <= i

\* C10 as stated: in the parsed document every tick that has tempo lines in
\* [SyncTrack] has exactly one TempoEvent, whose value is that of the LATER
\* (last) of those lines; likewise for TS lines.
C10_UltimaLinhaVale ==
    chartProcessado = "ok" =>
        /\ DOMAIN dadosChart.mudancasTempo = TicksSyncTrack(arquivo, "B")
        /\ \A t \in TicksSyncTrack(arquivo, "B") :
              dadosChart.mudancasTempo[t] =
                  arquivo[Ultima(LinhasSyncTrack(arquivo, "B", t))].valor
        /\ DOMAIN dadosChart.assinaturasTempo = TicksSyncTrack(arquivo, "TS")
        /\ \A t \in TicksSyncTrack(arquivo, "TS") :
              LET linha == arquivo[Ultima(LinhasSyncTrack(arquivo, "TS", t))]
              IN  dadosChart.assinaturasTempo[t] =
                      [numerador |-> linha.numerador,
                       denominador |-> Denominador(linha)]

\* C10 amended: in the parsed document every tick that has tempo lines in
\* [SyncTrack] has exactly one TempoEvent, whose value is that of the EARLIEST
\* (first) of those lines, later lines for the tick being ignored; likewise
\* for TS lines (numerator and denominator of the first line, the denominator
\* being 4 when absent or 0).
C10_PrimeiraLinhaVale ==
    chartProcessado = "ok" =>
        /\ DOMAIN dadosChart.mudancasTempo = TicksSyncTrack(arquivo, "B")
        /\ \A t \in TicksSyncTrack(arquivo, "B") :
              dadosChart.mudancasTempo[t] =
                  arquivo[Primeira(LinhasSyncTrack(arquivo, "B", t))].valor
        /\ DOMAIN dadosChart.assinaturasTempo = TicksSyncTrack(arquivo, "TS")
        /\ \A t \in TicksSyncTrack(arquivo, "TS") :
              LET linha == arquivo[Primeira(LinhasSyncTrack(arquivo, "TS", t))]
              IN  dadosChart.assinaturasTempo[t] =
                      [numerador |-> linha.numerador,
                       denominador |-> Denominador(linha)]

\* A file whose [SyncTrack] has the lines "0 = B 120000" and then
\* "0 = B 150000" has been parsed: the document holds 120000 at tick 0.
C10_Witness ==
    /\ chartProcessado = "ok"
    /\ Len(arquivo) = 3
    /\ arquivo[1] = [tipo |-> "secao", nome |-> "SyncTrack"]
    /\ arquivo[2] = [tipo |-> "B", tick |-> 0, valor |-> 120000]
    /\ arquivo[3] = [tipo |-> "B", tick |-> 0, valor |-> 150000]
    /\ DOMAIN dadosChart.mudancasTempo = {0}
    /\ dadosChart.mudancasTempo[0] = 120000

ChavesNumericas == {"Offset", "Resolution", "Difficulty", "PreviewStart", "PreviewEnd"}

\* The [Song] lines of the file that give a numeric key.
LinhasNumericasSong(arq) ==
    { i \in 1..Len(arq) :
        /\ arq[i].tipo = "CV"
        /\ arq[i].chave \in ChavesNumericas
        /\ SecaoDaLinha(arq, i) = "Song" }

-----------------------------------------------------------------------------
(* Claims about loading, session start and session end (Spec).             *)

\* C12: a format error during the chart load is not fatal: after the failed
\* load the program is in its main loop, shows an error status message, has
\* chartCarregado false and no session can be running.
C12_ErroDeFormatoNaoFatal ==
    chartProcessado = "excecao" =>
        /\ fase \in {"eventos", "atualizar"}
        /\ mensagemStatus.texto = "Erro: Falha no parsing do chart"
        /\ ~chartCarregado
        /\ ~jogoRodando

\* What the code does instead of C12: the process has ended before the main
\* loop, and the status is still that of the parse in progress.
FormatoInvalidoEncerra ==
    chartProcessado = "excecao" <=> fase = "encerrado"

\* The notes of player j that the step turns from not Hit to Hit.
NovosAcertos(j) ==
    { i \in IndicesNotas(j) : ~NotasDe(j)[i].acertada /\ NotasDe(j)'[i].acertada }

\* C13: within a session, a step that hits notes of a player raises that
\* player's score by exactly 10 for each short note and 5 for each sustain note
\* it hits; a note that is Hit stays Hit (it is never hit again), and the score
\* always holds 10 or 5 points for each Hit note, counted once.
C13_PontosPorAcerto ==
    [][ \A j \in Jogadores :
          (jogoRodando /\ Len(NotasDe(j)') = Len(NotasDe(j))) =>
              /\ \A i \in IndicesNotas(j) :
                    NotasDe(j)[i].acertada => NotasDe(j)'[i].acertada
              /\ NovosAcertos(j) # {} =>
                    pontuacao'[j] - pontuacao[j] =
                        10 * Cardinality({ i \in NovosAcertos(j) : ~NotasDe(j)[i].ehNotaLonga })
                        + 5 * Cardinality({ i \in NovosAcertos(j) : NotasDe(j)[i].ehNotaLonga })
              /\ pontuacao'[j] >=
                        10 * Cardinality({ i \in IndicesNotas(j) :
                                 NotasDe(j)'[i].acertada /\ ~NotasDe(j)'[i].ehNotaLonga })
                        + 5 * Cardinality({ i \in IndicesNotas(j) :
                                 NotasDe(j)'[i].acertada /\ NotasDe(j)'[i].ehNotaLonga }) ]_vars

\* Player 1 has hit both short notes (one press, 20 points) and then the
\* sustain (5 points), and holds no key.
C13_Witness ==
    /\ jogoRodando
    /\ Len(notasJ1) = 3
    /\ \A i \in 1..3 : notasJ1[i].acertada
    /\ pontuacao[1] = 25
    /\ teclasPresionadas[1] = {}

\* Note i of player j is a Hit sustain, on screen and not Missed, and the
\* playback position is inside [timestampSec, tempoFimSustainSec].
SustainNaJanela(j, i) ==
    LET nota == NotasDe(j)[i]
    IN  /\ nota.ehNotaLonga /\ nota.acertada
        /\ nota.naTela /\ ~nota.perdida /\ ~nota.sustainCompleto
        /\ nota.timestampSec <= musica.offset
        /\ musica.offset <= nota.tempoFimSustainSec

\* A key of player j mapped to the lane is held.
SeguraPista(j, pista) ==
    \E tecla \in teclasPresionadas[j] :
        tecla \in DOMAIN MapeamentoTeclaPista(j) /\ MapeamentoTeclaPista(j)[tecla] = pista

\* C14: for a Hit sustain note with the playback position inside its window,
\* an update tick with the lane key released leaves sustainAtivo false, the
\* note not Missed and the score as it is; an update tick with the key held
\* (again) leaves sustainAtivo true and adds one point; a press of the lane key
\* leaves the note as it is and pays nothing for it, and a release changes no
\* note and no score.
C14_SoltarERetomarSustain ==
    [][ \A j \in Jogadores :
          /\ \A i \in IndicesNotas(j) :
                (Atualizar /\ SustainNaJanela(j, i)) =>
                    /\ NotasDe(j)'[i].sustainAtivo = SeguraPista(j, NotasDe(j)[i].pista)
                    /\ NotasDe(j)'[i].acertada
                    /\ ~NotasDe(j)'[i].perdida
          /\ Atualizar =>
                pontuacao'[j] - pontuacao[j] =
                    Cardinality({ i \in IndicesNotas(j) :
                        SustainNaJanela(j, i) /\ SeguraPista(j, NotasDe(j)[i].pista) })
          /\ \A i \in IndicesNotas(j) :
                (PressDaPista(j, NotasDe(j)[i]) /\ SustainNaJanela(j, i)) =>
                    /\ NotasDe(j)'[i] = NotasDe(j)[i]
                    /\ pontuacao'[j] - pontuacao[j] =
                        10 * Cardinality({ k \in NovosAcertos(j) : ~NotasDe(j)[k].ehNotaLonga })
                        + 5 * Cardinality({ k \in NovosAcertos(j) : NotasDe(j)[k].ehNotaLonga })
          /\ (\E tecla \in TeclasEntrada : ProcessarTeclaRelease(tecla)) =>
                /\ NotasDe(j)' = NotasDe(j)
                /\ pontuacao'[j] = pontuacao[j] ]_vars

\* The sustain of player 1 was hit (5) and active for one tick (1); the key
\* was then released and the update at 1.25 s has made it inactive: it is not
\* Missed and the score is still 6.
C14_Witness ==
    /\ jogoRodando
    /\ musica = [status |-> "Playing", offset |-> 1250000]
    /\ \E i \in IndicesNotas(1) :
          /\ SustainNaJanela(1, i)
          /\ ~notasJ1[i].sustainAtivo
          /\ notasJ1[i].posicaoY = PosicaoAlvo(notasJ1[i], 1250000)
    /\ ~SeguraPista(1, 1)
    /\ pontuacao[1] = 6

\* hitZoneY + hitZoneHeight + noteHeight / 2, in position units.
LimiteDePerda == Px(Y_ZONA_ACERTO) + Px(ALTURA_ZONA_ACERTO) + (Px(ALTURA_NOTA) \div 2)

\* C16: an update tick that puts an on-screen, not Hit, not Missed short note
\* at a screen position beyond hitZoneY + hitZoneHeight + noteHeight/2 makes it
\* Missed; within a session a Missed note stays Missed, is never hit, and a
\* press that hits nothing else pays nothing.
C16_NotaCurtaPerdida ==
    [][ \A j \in Jogadores : \A i \in IndicesNotas(j) :
          LET nota == NotasDe(j)[i]
          IN  /\ ( /\ Atualizar
                   /\ ~nota.ehNotaLonga /\ nota.naTela /\ ~nota.acertada /\ ~nota.perdida
                   /\ NotasDe(j)'[i].posicaoY > LimiteDePerda )
                 => (NotasDe(j)'[i].perdida /\ ~NotasDe(j)'[i].acertada)
              /\ ( /\ jogoRodando /\ Len(NotasDe(j)') = Len(NotasDe(j))
                   /\ nota.perdida )
                 => /\ NotasDe(j)'[i].perdida
                    /\ NotasDe(j)'[i].acertada = nota.acertada
              /\ ( /\ PressDaPista(j, nota) /\ nota.perdida
                   /\ NovosAcertos(j) = {} )
                 => pontuacao'[j] = pontuacao[j] ]_vars

\* The first short note of player 2 was on screen and not hit when the update
\* at 1.121876 s put it 121.876 ms past the hit line (1221.876 px - 1100 px):
\* it is Missed, with its head still on screen, and player 2 has no points.
C16_Witness ==
    /\ jogoRodando
    /\ musica.offset = 1121876
    /\ notasJ2[1].timestampSec = 1000000 /\ ~notasJ2[1].ehNotaLonga
    /\ notasJ2[1].posicaoY = PosicaoAlvo(notasJ2[1], 1121876)
    /\ notasJ2[1].posicaoY > LimiteDePerda
    /\ notasJ2[1].perdida /\ ~notasJ2[1].acertada /\ notasJ2[1].naTela
    /\ pontuacao[2] = 0

\* A list holds a note that is on screen, not Hit and not Missed.
NotaPendente(notas) ==
    \E i \in 1..Len(notas) : notas[i].naTela /\ ~notas[i].acertada /\ ~notas[i].perdida

\* C17: a running session ends only in an update tick in which the audio
\* stream is not Playing and, after the tick's note updates, neither list holds
\* an on-screen, not Hit, not Missed note; an update tick at which both hold
\* ends the session; a step taken while the audio is Playing never ends it.
C17_FimDaSessao ==
    [][ /\ (jogoRodando /\ ~jogoRodando') =>
              /\ Atualizar
              /\ musica.status # "Playing"
              /\ ~NotaPendente(notasJ1') /\ ~NotaPendente(notasJ2')
        /\ ( /\ Atualizar
             /\ musica.status # "Playing"
             /\ ~NotaPendente(notasJ1') /\ ~NotaPendente(notasJ2') )
           => ~jogoRodando'
        /\ (jogoRodando /\ musica.status = "Playing") => jogoRodando' ]_vars

\* A session has ended: the audio has stopped at 1.625001 s, every note is off
\* the screen or resolved, and player 1 leaves with the points of a hit.
C17_Witness ==
    /\ ~jogoRodando
    /\ Len(notasJ1) = 3
    /\ musica = [status |-> "Stopped", offset |-> 1625001]
    /\ ~NotaPendente(notasJ1) /\ ~NotaPendente(notasJ2)
    /\ pontuacao[1] = 10
    /\ fase = "atualizar"

\* C18: a Space key-down starts a session if and only if a chart is loaded and
\* no session is running: a session only ever starts in a Space key-down with
\* a chart loaded and no session running; a Space key-down with a chart loaded
\* and no session running (before the first session or after one has ended)
\* always starts one; any other Space key-down changes nothing.
C18_EspacoIniciaSessao ==
    [][ /\ (~jogoRodando /\ jogoRodando') =>
              (ProcessarTeclaPress("Space") /\ chartCarregado)
        /\ ProcessarTeclaPress("Space") =>
              IF chartCarregado /\ ~jogoRodando
              THEN /\ jogoRodando'
                   /\ musica' = [status |-> "Playing", offset |-> 0]
                   /\ mensagemStatus'.texto = "Tocando..."
              ELSE UNCHANGED vars ]_vars

\* A session has ended with 10 points for player 1 and the end-of-game message
\* is up; the program is reading events again and Space would start the next
\* session.
C18_Witness ==
    /\ fase = "eventos"
    /\ chartCarregado
    /\ ~jogoRodando /\ ~jogoIniciado
    /\ mensagemStatus = [texto |-> "Fim de Jogo!", j1 |-> 10, j2 |-> 0]
    /\ pontuacao = [j \in Jogadores |-> IF j = 1 THEN 10 ELSE 0]

\* Every note of the list has all its gameplay flags false.
NotasNovas(notas) ==
    \A i \in 1..Len(notas) :
        /\ ~notas[i].acertada /\ ~notas[i].perdida /\ ~notas[i].naTela
        /\ ~notas[i].sustainAtivo /\ ~notas[i].sustainCompleto

\* C19: right after every session start both scores are 0, both pressed-key
\* sets are empty, every per-lane flag is true and every note of both lists has
\* acertada, perdida, naTela, sustainAtivo and sustainCompleto false, the lists
\* holding one note per master note; no step changes the master timeline.
C19_InicioLimpo ==
    [][ /\ (~jogoRodando /\ jogoRodando') =>
              /\ pontuacao' = [j \in Jogadores |-> 0]
              /\ teclasPresionadas' = [j \in Jogadores |-> {}]
              /\ \A j \in Jogadores : \A p \in Pistas : pistaPermiteAcertoNotaCurta'[j][p]
              /\ NotasNovas(notasJ1') /\ NotasNovas(notasJ2')
              /\ Len(notasJ1') + Len(notasJ2') = Len(todasNotasMusicaMestre)
              /\ \A i \in 1..Len(notasJ1') : notasJ1'[i].dono = 1
              /\ \A i \in 1..Len(notasJ2') : notasJ2'[i].dono = 2
        /\ todasNotasMusicaMestre' = todasNotasMusicaMestre ]_vars

\* A session has just started: three fresh notes per player, no points, no
\* keys, the audio at 0.
C19_Witness ==
    /\ jogoRodando /\ jogoIniciado
    /\ fase = "eventos"
    /\ mensagemStatus = Mensagem("Tocando...")
    /\ musica = [status |-> "Playing", offset |-> 0]
    /\ Len(notasJ1) = 3 /\ Len(notasJ2) = 3
    /\ NotasNovas(notasJ1) /\ NotasNovas(notasJ2)
    /\ NotasNovas(todasNotasMusicaMestre)
    /\ pontuacao = [j \in Jogadores |-> 0]
    /\ teclasPresionadas = [j \in Jogadores |-> {}]

\* The chart file cannot be opened, or has no content after an optional byte
\* order mark.
ArquivoAusenteOuVazio == ~arquivoEmDisco.abre \/ arquivoEmDisco.linhas = <<>>

\* The status message carregarAudio leaves when no audio file can be opened.
AudioNaoEncontrado == mensagemStatus.texto = "Erro: Arquivo de audio nao encontrado"

\* C20: when the chart file cannot be opened or is empty (a file that holds
\* only a byte order mark included), or no audio file can be opened,
\* chartCarregado is false; chartCarregado never changes after the load; and a
\* session is only ever running with chartCarregado true.
C20_SemChartSemSessao ==
    /\ []( /\ (ArquivoAusenteOuVazio \/ AudioNaoEncontrado) => ~chartCarregado
           /\ ArquivoAusenteOuVazio =>
                 (chartProcessado = "nullopt" /\ dadosChartOpt = <<>>)
           /\ jogoRodando => chartCarregado )
    /\ [][chartCarregado' = chartCarregado]_vars

\* The program was started with a chart file that holds only a byte order
\* mark: it is in its main loop with the parse-failure message, no chart and
\* no session, after the events of the first iteration.
C20_Witness ==
    /\ arquivoEmDisco = [abre |-> TRUE, bom |-> TRUE, linhas |-> <<>>]
    /\ chartProcessado = "nullopt"
    /\ mensagemStatus = Mensagem("Erro: Falha no parsing do chart")
    /\ ~chartCarregado /\ ~jogoRodando /\ ~jogoIniciado
    /\ fase = "atualizar"

-----------------------------------------------------------------------------
(* Claims about the loop of executar (checked under Spec).                 *)

\* The players' scores, pressed keys and per-lane flags, and the notes of both
\* lists.
EstadoDosJogadores ==
    <<pontuacao, teclasPresionadas, pistaPermiteAcertoNotaCurta, notasJ1, notasJ2>>

\* C21 as stated: while a session is running, scores, pressed-key sets,
\* per-lane flags and notes change only in a step of atualizar (the step that
\* is taken in the update phase and stays in it).
C21_SoNoPassoDeAtualizacao ==
    [][ (jogoRodando /\ EstadoDosJogadores' # EstadoDosJogadores)
          => (fase = "atualizar" /\ fase' = "atualizar") ]_vars

\* C21 as amended: while a session is running, scores, pressed-key sets,
\* per-lane flags and notes change only in the handling of a key event by
\* processarEventos or in a step of atualizar; the end-of-game check with
\* renderizar (the step that leaves the update phase) and the progress of
\* the audio change none of them.
C21_SoEmEventosEAtualizacao ==
    [][ (jogoRodando /\ EstadoDosJogadores' # EstadoDosJogadores)
          => (fase' = fase /\ fase \in {"eventos", "atualizar"} /\ musica' = musica) ]_vars

\* Event processing has changed the players' state in a running session: at
\* 1.0 s player 1 holds A and has the 10 points of the note of lane 0, hit by
\* that press, and the loop is still in processarEventos.
C21_Witness ==
    /\ jogoRodando
    /\ fase = "eventos"
    /\ musica = [status |-> "Playing", offset |-> 1000000]
    /\ teclasPresionadas[1] = {"A"}
    /\ pontuacao[1] = 10
    /\ \E i \in 1..Len(notasJ1) : notasJ1[i].pista = 0 /\ notasJ1[i].acertada

\* Note i of player j is marked Hit by the step.
PassaAAcertada(j, i) ==
    /\ i <= Len(NotasDe(j)')
    /\ NotasDe(j)[i].tickOriginal = NotasDe(j)'[i].tickOriginal
    /\ ~NotasDe(j)[i].acertada
    /\ NotasDe(j)'[i].acertada

\* The position of a note at playback time t (in position units):
\* hitZoneY - (timestampSec - t) * fallSpeed.
PosicaoNoInstante(nota, t) == Px(Y_ZONA_ACERTO) - (nota.timestampSec - t)

\* What the miss check decides for an unhit, on-screen note placed for
\* playback time t.
PerdidaNoInstante(nota, t) ==
    \/ ~nota.ehNotaLonga /\ PosicaoNoInstante(nota, t) > LimiteDePerda
    \/ nota.ehNotaLonga /\ t > nota.tempoFimSustainSec + ToleranciaMicros

\* C22: whenever a key press is resolved against playback time t, every note it
\* marks Hit has the screen position of that same t, and is not a note the miss
\* check marks Missed at t.
C22_AcertoComPosicaoAtual ==
    [][ \A j \in Jogadores : \A i \in 1..Len(NotasDe(j)) :
            PassaAAcertada(j, i) =>
                /\ NotasDe(j)[i].posicaoY = PosicaoNoInstante(NotasDe(j)[i], musica.offset)
                /\ ~PerdidaNoInstante(NotasDe(j)[i], musica.offset) ]_vars

\* The divergence: at 1.121876 s player 1 has the 10 points of the short note
\* of 1.0 s, marked Hit where it was placed by the update of 1.0 s (on the
\* hit line), although its position for 1.121876 s is past the miss limit.
AcertoDeNotaJaPerdida ==
    /\ jogoRodando
    /\ musica.offset = 1121876
    /\ \E i \in 1..Len(notasJ1) :
          /\ notasJ1[i].timestampSec = 1000000
          /\ notasJ1[i].acertada /\ ~notasJ1[i].perdida
          /\ notasJ1[i].posicaoY = Px(Y_ZONA_ACERTO)
          /\ PerdidaNoInstante(notasJ1[i], musica.offset)
    /\ pontuacao[1] = 10

-----------------------------------------------------------------------------
(* Claims about the note timeline (checked under Spec).                    *)

\* The indices of the chart notes whose lane exists.
NotasNaFaixa(chart) ==
    { k \in 1..Len(chart.notas) : chart.notas[k].traste < NUMERO_PISTAS }

\* The indices of the notes of a list that player j owns and that come from a
\* chart note of this tick and lane.
NotasDoJogadorPara(notas, j, tick, traste) ==
    { i \in 1..Len(notas) :
        notas[i].dono = j /\ notas[i].tickOriginal = tick /\ notas[i].pista = traste }

\* C23: the master timeline holds, for every chart note of a lane below 5, two
\* notes, one owned by each player, with the same timestamp and sustain end
\* (as many notes of a tick and lane per player as the chart has), and none
\* for a chart note of lane 5 or more; in a session both players' lists have
\* as many notes as the chart has notes of lanes below 5, list 1 only notes of
\* player 1 and list 2 only notes of player 2.
C23_DuasNotasPorNotaDoChart ==
    dadosChartOpt # <<>> =>
        LET chart == dadosChartOpt[1]
            n == Cardinality(NotasNaFaixa(chart))
        IN  /\ Len(todasNotasMusicaMestre) = 2 * n
            /\ \A k \in 1..Len(chart.notas) :
                  LET c == chart.notas[k]
                      iguais == { m \in 1..Len(chart.notas) :
                                    chart.notas[m].tick = c.tick
                                    /\ chart.notas[m].traste = c.traste }
                      de(j) == NotasDoJogadorPara(todasNotasMusicaMestre, j,
                                                  c.tick, c.traste)
                  IN  IF c.traste < NUMERO_PISTAS
                      THEN /\ \A j \in Jogadores : Cardinality(de(j)) = Cardinality(iguais)
                           /\ \A a \in de(1) : \E b \in de(2) :
                                 /\ todasNotasMusicaMestre[a].timestampSec =
                                        todasNotasMusicaMestre[b].timestampSec
                                 /\ todasNotasMusicaMestre[a].tempoFimSustainSec =
                                        todasNotasMusicaMestre[b].tempoFimSustainSec
                      ELSE \A j \in Jogadores : de(j) = {}
            /\ jogoRodando =>
                  /\ Len(notasJ1) = n /\ Len(notasJ2) = n
                  /\ \A i \in 1..Len(notasJ1) : notasJ1[i].dono = 1
                  /\ \A i \in 1..Len(notasJ2) : notasJ2[i].dono = 2

\* A session on the chart of four notes, one of them of lane 5: six master
\* notes, three notes per player.
C23_Witness ==
    /\ jogoRodando
    /\ dadosChartOpt # <<>>
    /\ Len(dadosChartOpt[1].notas) = 4
    /\ \E k \in 1..4 : dadosChartOpt[1].notas[k].traste >= NUMERO_PISTAS
    /\ Len(todasNotasMusicaMestre) = 6
    /\ Len(notasJ1) = 3 /\ Len(notasJ2) = 3

\* ticksParaSegundos(tick) in microseconds, for a chart of one tempo event at
\* tick 0: offset + (tick / resolution) * (60 / BPM).
MicrosDoTick(chart, tick) == EmMicros(FormulaUmTempo(chart, tick))

\* Note nota has the times of chart note c.
TemposDaNotaDoChart(chart, c, nota) ==
    /\ nota.tickOriginal = c.tick
    /\ nota.pista = c.traste
    /\ nota.ehNotaLonga = (c.comprimento > 0)
    /\ nota.timestampSec = MicrosDoTick(chart, c.tick)
    /\ nota.tempoFimSustainSec =
           IF c.comprimento > 0 THEN MicrosDoTick(chart, c.tick + c.comprimento)
           ELSE nota.timestampSec

\* C24: every note of the master timeline and of the players' lists has the
\* timestamp ticksParaSegundos(tick) of a chart note and the sustain end
\* ticksParaSegundos(tick + length) when the length is > 0, else the timestamp,
\* and every chart note of an existing lane has such a note for each player;
\* at 120 BPM and resolution 192 a sustain from tick 192 to tick 384 ends
\* 0.5 s after its timestamp.
C24_TemposDasNotas ==
    (dadosChartOpt # <<>> /\ UmTempoSo(dadosChartOpt[1])) =>
        LET chart == dadosChartOpt[1]
            todas == todasNotasMusicaMestre \o notasJ1 \o notasJ2
        IN  /\ \A i \in 1..Len(todas) :
                  /\ \E k \in NotasNaFaixa(chart) :
                        TemposDaNotaDoChart(chart, chart.notas[k], todas[i])
                  /\ ( /\ chart.mudancasTempo[0] = 120000 /\ chart.resolucao = 192
                       /\ todas[i].tickOriginal = 192 /\ todas[i].ehNotaLonga
                       /\ \E k \in NotasNaFaixa(chart) :
                             chart.notas[k].tick = 192 /\ chart.notas[k].comprimento = 192 )
                     => todas[i].tempoFimSustainSec - todas[i].timestampSec = 500000
            /\ \A k \in NotasNaFaixa(chart) : \A j \in Jogadores :
                  \E i \in 1..Len(todasNotasMusicaMestre) :
                     /\ todasNotasMusicaMestre[i].dono = j
                     /\ TemposDaNotaDoChart(chart, chart.notas[k], todasNotasMusicaMestre[i])

\* A session on the chart whose sustain goes from tick 192 to tick 384: the
\* note of player 1 lasts from 0.5 s to 1.0 s.
C24_Witness ==
    /\ jogoRodando
    /\ dadosChartOpt # <<>>
    /\ dadosChartOpt[1].notas = <<[tick |-> 192, traste |-> 4, comprimento |-> 192]>>
    /\ Len(notasJ1) = 1
    /\ notasJ1[1].ehNotaLonga
    /\ notasJ1[1].timestampSec = 500000
    /\ notasJ1[1].tempoFimSustainSec = 1000000

-----------------------------------------------------------------------------
(* Claims about the order of the parsed notes (checked under SpecParser).  *)

\* The note lines of the file that lie in a note-track section, in file order.
LinhasDeNotas(arq) ==
    SelectSeq([i \in 1..Len(arq) |-> [linha |-> arq[i], secao |-> SecaoDaLinha(arq, i)]],
              LAMBDA x : x.linha.tipo = "N" /\ x.secao \in SecoesDeNotas)

\* C25: after a successful parse the notes are in ascending order of tick,
\* whatever the order of the note lines and of the difficulty sections.
C25_NotasOrdenadasPorTick ==
    chartProcessado = "ok" =>
        /\ Len(dadosChart.notas) = Len(LinhasDeNotas(arquivo))
        /\ \A a, b \in 1..Len(dadosChart.notas) :
              a < b => dadosChart.notas[a].tick <= dadosChart.notas[b].tick

\* A parsed file of two difficulty sections whose note of tick 384 comes
\* before its note of tick 192: the document has the note of tick 192 first.
C25_Witness ==
    /\ chartProcessado = "ok"
    /\ arquivo = << [tipo |-> "secao", nome |-> "ExpertSingle"],
                    [tipo |-> "N", tick |-> 384, traste |-> 0, comprimento |-> 0],
                    [tipo |-> "secao", nome |-> "EasySingle"],
                    [tipo |-> "N", tick |-> 192, traste |-> 1, comprimento |-> 96] >>
    /\ dadosChart.notas = << [tick |-> 192, traste |-> 1, comprimento |-> 96],
                             [tick |-> 384, traste |-> 0, comprimento |-> 0] >>

\* C26: two notes of the same tick are in the parsed sequence in the order of
\* their lines in the file (the notes of the document are the note lines of
\* the file, in an order that keeps lines of equal tick in file order).
C26_OrdenacaoEstavel ==
    chartProcessado = "ok" =>
        LET linhas == LinhasDeNotas(arquivo)
            n == Len(dadosChart.notas)
        IN  /\ n = Len(linhas)
            /\ \E f \in [1..n -> 1..n] :
                  /\ \A a, b \in 1..n : a # b => f[a] # f[b]
                  /\ \A a \in 1..n :
                        /\ dadosChart.notas[a].tick = linhas[f[a]].linha.tick
                        /\ dadosChart.notas[a].traste = linhas[f[a]].linha.traste
                        /\ dadosChart.notas[a].comprimento = linhas[f[a]].linha.comprimento
                  /\ \A a, b \in 1..n :
                        (a < b /\ dadosChart.notas[a].tick = dadosChart.notas[b].tick)
                            => f[a] < f[b]

\* The divergence: the file gives the note of lane 0 before the note of lane 2
\* of the same tick, and the document has them the other way round.
OrdemTrocadaNoMesmoTick ==
    /\ chartProcessado = "ok"
    /\ arquivo = << [tipo |-> "secao", nome |-> "ExpertSingle"],
                    [tipo |-> "N", tick |-> 384, traste |-> 0, comprimento |-> 0],
                    [tipo |-> "N", tick |-> 384, traste |-> 2, comprimento |-> 0] >>
    /\ dadosChart.notas = << [tick |-> 384, traste |-> 2, comprimento |-> 0],
                             [tick |-> 384, traste |-> 0, comprimento |-> 0] >>

-----------------------------------------------------------------------------
(* Claims about the loading of the audio file (checked under SpecAudio).   *)

\* C27: when the primary name does not open, openFromFile is called with the
\* base name and .ogg, .wav, .flac, .mp3 in that order and no further once one
\* has opened; when the primary name opens nothing else is tried; and at the
\* end of carregarAudio chartCarregado is true exactly when the primary name or
\* one of the four candidates opens.
C27_ExtensoesEmOrdem ==
    Len(tentativasAudio) >= 1 =>
        LET primario == tentativasAudio[1]
            base == NomeBase(primario)
            esperadas == <<base \o ".ogg", base \o ".wav", base \o ".flac", base \o ".mp3">>
            resto == SubSeq(tentativasAudio, 2, Len(tentativasAudio))
        IN  /\ primario = NomeArquivoAudio(dadosChartOpt[1])
            /\ primario \in audiosEmDisco => resto = <<>>
            /\ Len(resto) <= 4
            /\ resto = SubSeq(esperadas, 1, Len(resto))
            /\ \A i \in 1..(Len(resto) - 1) : resto[i] \notin audiosEmDisco
            /\ fase # "carregarAudio" =>
                  /\ primario \notin audiosEmDisco =>
                        /\ Len(resto) >= 1
                        /\ Len(resto) < 4 => resto[Len(resto)] \in audiosEmDisco
                  /\ chartCarregado <=>
                        ( \/ primario \in audiosEmDisco
                          \/ \E i \in 1..4 : esperadas[i] \in audiosEmDisco )

\* carregarAudio has ended for the stream "musica" with musica.flac and
\* musica.mp3 on disk: four names were tried, musica.flac is open, musica.mp3
\* was not tried.
C27_Witness ==
    /\ fase = "eventos"
    /\ audiosEmDisco = {"musica.flac", "musica.mp3"}
    /\ tentativasAudio = <<"musica", "musica.ogg", "musica.wav", "musica.flac">>
    /\ audioAberto = <<"musica.flac">>
    /\ chartCarregado

-----------------------------------------------------------------------------
(* Claims about the score (checked under Spec).                            *)

\* The step starts a session.
InicioDeSessao == ~jogoRodando /\ jogoRodando'

\* The step is one of atualizar: the loop stays in its update phase and the
\* audio is where it was.
PassoDeAtualizacao ==
    jogoRodando /\ fase = "atualizar" /\ fase' = "atualizar" /\ musica' = musica

\* Note i of player j becomes SustainComplete in the step.
PassaACompleta(j, i) ==
    /\ i <= Len(NotasDe(j)')
    /\ ~NotasDe(j)[i].sustainCompleto
    /\ NotasDe(j)'[i].sustainCompleto

\* C28: each score is never negative; no step but a session start lowers it;
\* and a step that is not a session start adds 10 for each short note it marks
\* Hit, 5 for each sustain it marks Hit, 20 for each sustain it completes and,
\* in a step of atualizar, 1 for each of some of the player's hit sustains
\* that are on screen and not Missed -- nothing else.
C28_PontuacaoSoCresce ==
    /\ [](\A j \in Jogadores : pontuacao[j] >= 0)
    /\ [][ ~InicioDeSessao =>
             \A j \in Jogadores :
                LET curtas == { i \in 1..Len(NotasDe(j)) :
                                  PassaAAcertada(j, i) /\ ~NotasDe(j)[i].ehNotaLonga }
                    longas == { i \in 1..Len(NotasDe(j)) :
                                  PassaAAcertada(j, i) /\ NotasDe(j)[i].ehNotaLonga }
                    completas == { i \in 1..Len(NotasDe(j)) : PassaACompleta(j, i) }
                    seguraveis == { i \in 1..Len(NotasDe(j)) :
                                      /\ PassoDeAtualizacao
                                      /\ NotasDe(j)'[i].ehNotaLonga
                                      /\ NotasDe(j)'[i].acertada
                                      /\ NotasDe(j)'[i].naTela
                                      /\ ~NotasDe(j)'[i].perdida }
                    resto == pontuacao'[j] - pontuacao[j]
                               - 10 * Cardinality(curtas) - 5 * Cardinality(longas)
                               - 20 * Cardinality(completas)
                IN  /\ pontuacao'[j] >= pontuacao[j]
                    /\ resto \in 0..Cardinality(seguraveis) ]_vars

\* A session in which player 1 has collected the 10 points of a short note, the
\* 5 points of the sustain's hit and 2 points of holding it.
C28_Witness ==
    /\ jogoRodando
    /\ pontuacao[1] = 17
    /\ \E a, b \in 1..Len(notasJ1) :
          /\ ~notasJ1[a].ehNotaLonga /\ notasJ1[a].acertada
          /\ notasJ1[b].ehNotaLonga /\ notasJ1[b].acertada /\ notasJ1[b].sustainAtivo

\* The notes of player j that the sustain pass of the step works on: sustains
\* that are Hit, on screen and not Missed when that pass sees them (after the
\* position, visibility and miss pass of the same tick) and not yet
\* SustainComplete.
SustainsDoPasso(j) ==
    { i \in 1..Len(NotasDe(j)) :
        /\ NotasDe(j)'[i].ehNotaLonga
        /\ NotasDe(j)'[i].acertada
        /\ NotasDe(j)'[i].naTela
        /\ ~NotasDe(j)'[i].perdida
        /\ ~NotasDe(j)[i].sustainCompleto }

\* The owner holds a key of the note's lane and the playback position is
\* inside [timestampSec, sustainEndSec].
SeguradaNoPeriodo(j, i) ==
    /\ SeguraPista(j, NotasDe(j)[i].pista)
    /\ NotasDe(j)[i].timestampSec <= musica.offset
    /\ musica.offset <= NotasDe(j)[i].tempoFimSustainSec

\* C29: in every update tick, each sustain that is Hit, on screen, not Missed
\* and not SustainComplete gets sustainAtivo true and gives its owner 1 point
\* exactly when the owner holds a key of its lane and the playback position is
\* inside its period; otherwise it gets sustainAtivo false and changes no
\* score: the tick adds to each score one point per sustain held in its period
\* and nothing else.
C29_PontoPorSustainSegurado ==
    [][ PassoDeAtualizacao =>
          \A j \in Jogadores :
             /\ \A i \in SustainsDoPasso(j) :
                   NotasDe(j)'[i].sustainAtivo = SeguradaNoPeriodo(j, i)
             /\ pontuacao'[j] - pontuacao[j] =
                   Cardinality({ i \in SustainsDoPasso(j) : SeguradaNoPeriodo(j, i) }) ]_vars

\* Player 1 hit the sustain (5 points), held it for one tick (1 point) and
\* released S; the tick that followed, inside the period, left sustainAtivo
\* false and the score at 6.
C29_Witness ==
    /\ jogoRodando
    /\ fase = "atualizar"
    /\ musica.status = "Playing"
    /\ musica.offset \in 1250000..1500000
    /\ teclasPresionadas[1] = {}
    /\ pontuacao[1] = 6
    /\ \E i \in 1..Len(notasJ1) :
          /\ notasJ1[i].ehNotaLonga /\ notasJ1[i].acertada /\ notasJ1[i].naTela
          /\ ~notasJ1[i].perdida /\ ~notasJ1[i].sustainAtivo
          /\ notasJ1[i].posicaoY = Px(Y_ZONA_ACERTO) - (notasJ1[i].timestampSec - musica.offset)

\* Note i of player j satisfies the hit conditions for a press at the current
\* playback position: unhit, not Missed, on screen, at most a note height
\* outside the hit zone, and within the tolerance of its timestamp.
SatisfazCondicoesDeAcerto(j, i) ==
    LET nota == NotasDe(j)[i]
    IN  /\ ~nota.acertada /\ ~nota.perdida /\ nota.naTela
        /\ nota.posicaoY >= Px(Y_ZONA_ACERTO - ALTURA_NOTA)
        /\ nota.posicaoY <= Px(Y_ZONA_ACERTO + ALTURA_ZONA_ACERTO + ALTURA_NOTA)
        /\ nota.timestampSec - musica.offset <= ToleranciaMicros
        /\ musica.offset - nota.timestampSec <= ToleranciaMicros

\* The points of the hit of a note.
PremioDoAcerto(nota) == IF nota.ehNotaLonga THEN 5 ELSE 10

\* C30: one key press marks Hit every note of the pressed lane that satisfies
\* the hit conditions: in a running session, a step that puts a key of an
\* armed lane into a player's pressed keys, or that marks a note of a lane
\* Hit, marks Hit all the player's notes of that lane that satisfy the
\* conditions, and the score rises by the sum of the awards of the notes the
\* step marks Hit.
C30_TodasAsNotasDaPista ==
    [][ (jogoRodando /\ ~PassoDeAtualizacao) =>
          \A j \in Jogadores :
             LET acertadas == { i \in 1..Len(NotasDe(j)) : PassaAAcertada(j, i) }
                 pressionadas ==
                     { MapeamentoTeclaPista(j)[t] :
                         t \in (teclasPresionadas'[j] \ teclasPresionadas[j])
                                 \cap DOMAIN MapeamentoTeclaPista(j) }
                 pistas == { p \in pressionadas : pistaPermiteAcertoNotaCurta[j][p] }
                             \cup { NotasDe(j)[i].pista : i \in acertadas }
             IN  /\ \A i \in 1..Len(NotasDe(j)) :
                       (NotasDe(j)[i].pista \in pistas /\ SatisfazCondicoesDeAcerto(j, i))
                           => i \in acertadas
                 /\ pontuacao'[j] - pontuacao[j] =
                       SomaSeq([i \in 1..Len(NotasDe(j)) |->
                                   IF i \in acertadas THEN PremioDoAcerto(NotasDe(j)[i])
                                   ELSE 0]) ]_vars

\* Both short notes of lane 0 (1.0 s and 1.0625 s) are Hit at 1.0625 s, where
\* the update of that instant placed them, and player 1 has their 20 points.
C30_Witness ==
    /\ jogoRodando
    /\ fase = "eventos"
    /\ musica = [status |-> "Playing", offset |-> 1062500]
    /\ "A" \in teclasPresionadas[1]
    /\ pontuacao[1] = 20
    /\ Cardinality({ i \in 1..Len(notasJ1) :
                       /\ notasJ1[i].pista = 0 /\ notasJ1[i].acertada
                       /\ notasJ1[i].posicaoY =
                              Px(Y_ZONA_ACERTO) - (notasJ1[i].timestampSec - 1062500) }) = 2

-----------------------------------------------------------------------------
(* Claims about missed notes (checked under Spec).                         *)

\* C31: after every update tick whose playback position exceeds the sustain
\* end of a never-hit sustain by more than the tolerance (0.200 s), the note is
\* Missed, whatever the positions of the ticks before it.
C31_SustainNaoAcertadoPerdido ==
    [][ PassoDeAtualizacao =>
          \A j \in Jogadores : \A i \in 1..Len(NotasDe(j)) :
             ( /\ NotasDe(j)'[i].ehNotaLonga
               /\ ~NotasDe(j)'[i].acertada
               /\ musica.offset > NotasDe(j)[i].tempoFimSustainSec + ToleranciaMicros )
                 => NotasDe(j)'[i].perdida ]_vars

\* The divergence: the first update tick of the session comes at 1.200001 s;
\* the sustain of 0.5 s to 1.0 s was never on screen and is placed below the
\* window, neither on screen nor Missed.
SustainQueNuncaEstaNaTela ==
    /\ jogoRodando
    /\ fase = "atualizar"
    /\ musica.offset = 1200001
    /\ Len(notasJ1) = 1
    /\ notasJ1[1].ehNotaLonga
    /\ notasJ1[1].tempoFimSustainSec = 1000000
    /\ notasJ1[1].posicaoY = Px(Y_ZONA_ACERTO) - (notasJ1[1].timestampSec - 1200001)
    /\ ~notasJ1[1].acertada /\ ~notasJ1[1].naTela /\ ~notasJ1[1].perdida

\* Note i of player j becomes Missed in the step.
PassaAPerdida(j, i) ==
    /\ i <= Len(NotasDe(j)')
    /\ NotasDe(j)[i].tickOriginal = NotasDe(j)'[i].tickOriginal
    /\ ~NotasDe(j)[i].perdida
    /\ NotasDe(j)'[i].perdida

\* C32: a short note is never both Hit and Missed; no step marks Hit a note
\* that is Missed; and a note that is Hit becomes Missed only in an update
\* tick that places it, a sustain that is not SustainComplete, with its whole
\* tail below the window.
C32_AcertadaEPerdida ==
    /\ [](\A j \in Jogadores : \A i \in 1..Len(NotasDe(j)) :
             ~NotasDe(j)[i].ehNotaLonga
                => ~(NotasDe(j)[i].acertada /\ NotasDe(j)[i].perdida))
    /\ [][ \A j \in Jogadores : \A i \in 1..Len(NotasDe(j)) :
              /\ PassaAAcertada(j, i) => (~NotasDe(j)[i].perdida /\ ~NotasDe(j)'[i].perdida)
              /\ (PassaAPerdida(j, i) /\ NotasDe(j)'[i].acertada) =>
                    /\ PassoDeAtualizacao
                    /\ NotasDe(j)[i].acertada
                    /\ NotasDe(j)[i].ehNotaLonga
                    /\ ~NotasDe(j)'[i].sustainCompleto
                    /\ ~NotasDe(j)'[i].naTela
                    /\ NotasDe(j)'[i].posicaoY
                         - (NotasDe(j)[i].tempoFimSustainSec - NotasDe(j)[i].timestampSec)
                         > Px(ALTURA_JANELA) ]_vars

\* The sustain of 1.25 s to 1.5 s was hit by player 1 and the update of
\* 1.625001 s placed its tail below the window: it is Hit and Missed, off
\* screen and not SustainComplete.
C32_Witness ==
    /\ musica.offset = 1625001
    /\ \E i \in 1..Len(notasJ1) :
          /\ notasJ1[i].ehNotaLonga /\ notasJ1[i].timestampSec = 1250000
          /\ notasJ1[i].acertada /\ notasJ1[i].perdida
          /\ ~notasJ1[i].naTela /\ ~notasJ1[i].sustainCompleto
          /\ notasJ1[i].posicaoY = Px(Y_ZONA_ACERTO) + 375001

-----------------------------------------------------------------------------
(* Claims about key events (checked under Spec).                           *)

\* The keys fed to the game that are neither Space nor a lane key.
TeclasSemMapeamento ==
    { t \in TeclasEntrada :
        t # "Space" /\ \A j \in Jogadores : t \notin DOMAIN MapeamentoTeclaPista(j) }

\* C33: a press or a release of a key that is neither Space nor a lane key
\* changes no score, pressed-key set, per-lane flag or note; and while no
\* session is running, no step that does not start one (so no press or
\* release of a lane key) changes any of them.
C33_TeclaSemEfeito ==
    [][ /\ (\E t \in TeclasSemMapeamento :
               ProcessarTeclaPress(t) \/ ProcessarTeclaRelease(t))
            => EstadoDosJogadores' = EstadoDosJogadores
        /\ (~jogoRodando /\ ~jogoRodando')
            => EstadoDosJogadores' = EstadoDosJogadores ]_vars

\* A running session in its event phase, where player 1 holds A and has the
\* points of a hit: the unmapped key X can arrive and has state to disturb.
C33_Witness ==
    /\ fase = "eventos"
    /\ "X" \in TeclasSemMapeamento
    /\ jogoRodando
    /\ teclasPresionadas[1] = {"A"} /\ pontuacao[1] = 10
    /\ ENABLED ProcessarTeclaPress("X")

\* C34: in a running session the release of a lane key takes that key out of
\* its player's pressed keys and leaves the flag of its lane true, and changes
\* no other key, no other flag, no score and no note, of either player.
C34_SoltarTecla ==
    [][ \A t \in TeclasEntrada : \A j \in Jogadores :
          (jogoRodando /\ t \in DOMAIN MapeamentoTeclaPista(j) /\ ProcessarTeclaRelease(t))
            => /\ teclasPresionadas'[j] = teclasPresionadas[j] \ {t}
               /\ \A o \in Jogadores \ {j} : teclasPresionadas'[o] = teclasPresionadas[o]
               /\ pistaPermiteAcertoNotaCurta'[j][MapeamentoTeclaPista(j)[t]]
               /\ \A o \in Jogadores : \A p \in Pistas :
                     (o # j \/ p # MapeamentoTeclaPista(j)[t])
                        => pistaPermiteAcertoNotaCurta'[o][p]
                              = pistaPermiteAcertoNotaCurta[o][p]
               /\ pontuacao' = pontuacao
               /\ notasJ1' = notasJ1 /\ notasJ2' = notasJ2 ]_vars

\* Player 1 hit the note of 1.0 s with A (10 points) and has released A in the
\* same event phase, still holding S: A is out of the pressed keys, S is in,
\* lane 0 is armed.
C34_Witness ==
    /\ jogoRodando
    /\ fase = "eventos"
    /\ musica.offset = 1000000
    /\ pontuacao[1] = 10
    /\ teclasPresionadas[1] = {"S"}
    /\ pistaPermiteAcertoNotaCurta[1][0]
    /\ \E i \in 1..Len(notasJ1) : notasJ1[i].pista = 0 /\ notasJ1[i].acertada

\* C35: once the audio stream is not Playing in a running session, the session
\* eventually ends (jogoRodando false), whatever keys are or are not pressed.
\* Sessions are followed up to MaxPontosSustain sustain points of a player.
C35_FimAposAudioParar ==
    (jogoRodando /\ musica.status # "Playing")
       ~> (~jogoRodando \/ \E j \in Jogadores : PontosDeSustain(j) >= MaxPontosSustain)

\* The stream has stopped and reports the position 0; no key was pressed; a
\* note is on screen, neither hit nor Missed, and an update tick at this
\* position changes no note: every later tick finds the same active note.
NotaQueBloqueiaOFim ==
    /\ jogoRodando
    /\ musica = [status |-> "Stopped", offset |-> 0]
    /\ fase = "atualizar"
    /\ pontuacao = [j \in Jogadores |-> 0]
    /\ teclasPresionadas = [j \in Jogadores |-> {}]
    /\ TemNotasAtivas(notasJ1)
    /\ AtualizarSustainParaJogador(1, AtualizarLogicaJogador(notasJ1, musica.offset),
                                   teclasPresionadas[1], musica.offset).notas = notasJ1
    /\ AtualizarSustainParaJogador(2, AtualizarLogicaJogador(notasJ2, musica.offset),
                                   teclasPresionadas[2], musica.offset).notas = notasJ2

\* The end-of-game message is produced: the status message becomes the
\* "Fim de Jogo!" text.
ProduzMensagemDeFim ==
    mensagemStatus' # mensagemStatus /\ mensagemStatus'.texto = "Fim de Jogo!"

\* C36: once a session has ended, the scores and the notes of both players stay
\* as they are in every step that is not the start of a new session; the
\* end-of-game message carries the final scores and is produced exactly once
\* per session: only for a session that has ended, before any event of the next
\* iteration is handled (the iteration in which the session ended cannot come
\* to its end without producing it), and never again until a new session has
\* started.
C36_AposOFim ==
    /\ [][ /\ (~jogoRodando /\ ~InicioDeSessao)
              => (pontuacao' = pontuacao /\ notasJ1' = notasJ1 /\ notasJ2' = notasJ2)
           /\ ProduzMensagemDeFim
              => /\ jogoIniciado /\ ~jogoRodando /\ ~jogoIniciado'
                 /\ mensagemStatus'.j1 = pontuacao[1] /\ mensagemStatus'.j2 = pontuacao[2]
           /\ (~jogoIniciado /\ jogoIniciado') => InicioDeSessao
           /\ (jogoIniciado /\ ~jogoRodando /\ fase' # fase) => ProduzMensagemDeFim ]_vars
    /\ []((jogoIniciado /\ ~jogoRodando) => fase = "atualizar")
    /\ []((~jogoIniciado /\ mensagemStatus.texto = "Fim de Jogo!")
            => (mensagemStatus.j1 = pontuacao[1] /\ mensagemStatus.j2 = pontuacao[2]))

\* A session has ended with points of player 1, who hit the sustain of 1.25 s;
\* the message with these scores has been produced, a key is still in the
\* pressed keys, and a later iteration of the loop has handled its events and
\* is in its update phase.
C36_Witness ==
    /\ ~jogoRodando
    /\ ~jogoIniciado
    /\ fase = "atualizar"
    /\ musica.status = "Stopped"
    /\ mensagemStatus = [texto |-> "Fim de Jogo!", j1 |-> pontuacao[1], j2 |-> pontuacao[2]]
    /\ pontuacao[1] > 0
    /\ teclasPresionadas[1] # {}
    /\ \E i \in 1..Len(notasJ1) :
          notasJ1[i].ehNotaLonga /\ notasJ1[i].acertada /\ notasJ1[i].sustainAtivo

\* The numbers of a player's notes with the hit flag, short and sustain, and
\* of the player's sustains with the sustainCompleto flag.
CurtasAcertadas(notas) ==
    Cardinality({ i \in 1..Len(notas) : notas[i].acertada /\ ~notas[i].ehNotaLonga })

LongasAcertadas(notas) ==
    Cardinality({ i \in 1..Len(notas) : notas[i].acertada /\ notas[i].ehNotaLonga })

SustainsCompletos(notas) ==
    Cardinality({ i \in 1..Len(notas) : notas[i].sustainCompleto })

\* The (update tick, sustain) pairs of the step: the player's sustains that
\* the tick of atualizar scores active (it processes them and leaves
\* sustainAtivo true, or completes them while active).
ParesDoPasso(j) ==
    IF PassoDeAtualizacao
    THEN Cardinality({ i \in SustainsDoPasso(j) :
                          NotasDe(j)'[i].sustainAtivo \/ PassaACompleta(j, i) })
    ELSE 0

\* C37: each score is 10 per short note with the hit flag, 5 per sustain with
\* the hit flag, 1 per (update tick, sustain) pair scored active and 20 per
\* SustainComplete sustain.  The pairs are not kept in the state, so the
\* equality is stated step by step: a session starts with score 0 and no note
\* hit or complete, and every other step changes the score by
\* 10 * (new short hits) + 5 * (new sustain hits) + (pairs of the step)
\* + 20 * (new completions); the score is never below the part the flags
\* account for.
C37_ContaDaPontuacao ==
    /\ [](\A j \in Jogadores :
            pontuacao[j] >= 10 * CurtasAcertadas(NotasDe(j)) + 5 * LongasAcertadas(NotasDe(j))
                             + 20 * SustainsCompletos(NotasDe(j)))
    /\ [][ \A j \in Jogadores :
             IF InicioDeSessao
             THEN /\ pontuacao'[j] = 0
                  /\ CurtasAcertadas(NotasDe(j)') = 0
                  /\ LongasAcertadas(NotasDe(j)') = 0
                  /\ SustainsCompletos(NotasDe(j)') = 0
             ELSE pontuacao'[j] - pontuacao[j]
                     = 10 * (CurtasAcertadas(NotasDe(j)') - CurtasAcertadas(NotasDe(j)))
                       + 5 * (LongasAcertadas(NotasDe(j)') - LongasAcertadas(NotasDe(j)))
                       + ParesDoPasso(j)
                       + 20 * (SustainsCompletos(NotasDe(j)') - SustainsCompletos(NotasDe(j))) ]_vars

\* Player 1 has hit a short note and the sustain, has held the sustain for two
\* ticks, and the score is 10 + 5 + 2.
C37_Witness ==
    /\ jogoRodando
    /\ CurtasAcertadas(notasJ1) = 1
    /\ LongasAcertadas(notasJ1) = 1
    /\ SustainsCompletos(notasJ1) = 0
    /\ pontuacao[1] = 17
    /\ \E i \in 1..Len(notasJ1) : notasJ1[i].ehNotaLonga /\ notasJ1[i].sustainAtivo

\* The state that belongs to player j: score, pressed keys, per-lane flags and
\* note list.
EstadoDoJogador(j) ==
    <<pontuacao[j], teclasPresionadas[j], pistaPermiteAcertoNotaCurta[j], NotasDe(j)>>

\* C38: in a running session the press or the release of a key of one player's
\* map leaves the other player's score, pressed keys, flags and notes as they
\* are; and an update tick gives each player the notes and the score that
\* follow from that player's own notes, keys and score and the playback
\* position, whatever the other player's are.
C38_JogadoresIsolados ==
    [][ \A j \in Jogadores :
          /\ \A t \in TeclasEntrada :
                (jogoRodando /\ t \in DOMAIN MapeamentoTeclaPista(j)
                   /\ (ProcessarTeclaPress(t) \/ ProcessarTeclaRelease(t)))
                  => \A o \in Jogadores \ {j} : EstadoDoJogador(o)' = EstadoDoJogador(o)
          /\ PassoDeAtualizacao
                => LET r == AtualizarSustainParaJogador(j,
                               AtualizarLogicaJogador(NotasDe(j), musica.offset),
                               teclasPresionadas[j], musica.offset)
                   IN  /\ NotasDe(j)' = r.notas
                       /\ pontuacao'[j] = pontuacao[j] + r.pontos ]_vars

\* Both players have the short note of 1.0 s in lane 0; player 1 has pressed A
\* and hit it, player 2 has pressed nothing: an update tick at 1.2 s has marked
\* player 2's note Missed and left player 1's Hit, and only player 1 has
\* points and a pressed key.
C38_Witness ==
    /\ jogoRodando
    /\ pontuacao = <<10, 0>>
    /\ teclasPresionadas = <<{"A"}, {}>>
    /\ \E i \in 1..Len(notasJ1) :
          /\ notasJ1[i].timestampSec = 1000000
          /\ notasJ1[i].acertada /\ ~notasJ1[i].perdida
    /\ \E i \in 1..Len(notasJ2) :
          /\ notasJ2[i].timestampSec = 1000000
          /\ ~notasJ2[i].acertada /\ notasJ2[i].perdida

-----------------------------------------------------------------------------
(* SpecNotas: the note loop of Jogo::carregarDadosChart applied to charts   *)
(* of one note, with ticks and lengths up to the largest int.               *)

TicksDeNota        == {1, 192, 384}
ComprimentosDeNota == {0, 96, INT_MAX - 191, INT_MAX}
TrastesDeNota      == {0, NUMERO_PISTAS}
ResolucoesDeNota   == {2, RESOLUCAO_PADRAO}
MapasTempoDeNota   == { <<>>, (0 :> 150000), (0 :> 120000 @@ 192 :> 150000) }

\* The notes whose times the exact arithmetic of the model can hold: the sum
\* of tick and length overflows, or stays below 1000 ticks.
NotasChartDeNota ==
    { n \in [tick : TicksDeNota, traste : TrastesDeNota, comprimento : ComprimentosDeNota] :
        TransbordaSoma(n.tick, n.comprimento) \/ n.tick + n.comprimento < 1000 }

ChartsDeNota ==
    { [DadosChartPadrao EXCEPT !.offset = o, !.resolucao = r, !.mudancasTempo = m,
                               !.notas = <<n>>] :
        o \in Offsets, r \in ResolucoesDeNota, m \in MapasTempoDeNota,
        n \in NotasChartDeNota }

\* The chart has been parsed and the calculator built (lines 744-753); the
\* master timeline is still empty.
InitNotas ==
    /\ \E chart \in ChartsDeNota :
          /\ dadosChartOpt = <<chart>>
          /\ calculadoraTempoOpt = <<CalculadoraTempo(chart)>>
    /\ consultas = <<>>
    /\ ParserOcioso
    /\ AudioOcioso
    /\ jogoRodando = FALSE
    /\ jogoIniciado = FALSE
    /\ chartCarregado = FALSE
    /\ mensagemStatus = Mensagem("Convertendo notas...")
    /\ pontuacao = [j \in Jogadores |-> 0]
    /\ teclasPresionadas = [j \in Jogadores |-> {}]
    /\ pistaPermiteAcertoNotaCurta = [j \in Jogadores |-> [p \in Pistas |-> TRUE]]
    /\ todasNotasMusicaMestre = <<>>
    /\ notasJ1 = <<>>
    /\ notasJ2 = <<>>
    /\ musica = [status |-> "Stopped", offset |-> 0]
    /\ fase = "carregarDadosChart"

\* A note of the chart whose end tick does not fit an int.
TemSomaQueTransborda(chart) ==
    \E i \in 1..Len(chart.notas) :
        /\ chart.notas[i].traste < NUMERO_PISTAS
        /\ chart.notas[i].comprimento > 0
        /\ TransbordaSoma(chart.notas[i].tick, chart.notas[i].comprimento)

\* The loop of lines 758-776 and the sort: every sum is carried out (wrapping
\* around when it overflows).
ConstruirLinhaDoTempo ==
    /\ fase = "carregarDadosChart"
    /\ todasNotasMusicaMestre' =
           LinhaDoTempoMestre(calculadoraTempoOpt[1], dadosChartOpt[1])
    /\ fase' = "eventos"
    /\ UNCHANGED <<jogoRodando, jogoIniciado, chartCarregado, mensagemStatus, pontuacao,
                   teclasPresionadas, pistaPermiteAcertoNotaCurta, notasJ1, notasJ2,
                   musica, varsTempo, varsParser, varsAudio>>

\* The same loop in a build that traps on signed overflow: the process ends
\* at the sum of line 765 with no note built.
ConstruirLinhaDoTempoAborta ==
    /\ fase = "carregarDadosChart"
    /\ TemSomaQueTransborda(dadosChartOpt[1])
    /\ fase' = "encerrado"
    /\ UNCHANGED <<jogoRodando, jogoIniciado, chartCarregado, mensagemStatus, pontuacao,
                   teclasPresionadas, pistaPermiteAcertoNotaCurta, todasNotasMusicaMestre,
                   notasJ1, notasJ2, musica, varsTempo, varsParser, varsAudio>>

NextNotas ==
    \/ ConstruirLinhaDoTempo
    \/ ConstruirLinhaDoTempoAborta

SpecNotas == InitNotas /\ [][NextNotas]_vars

\* C39: every note built from a chart with resolution > 0 has
\* tempoFimSustainSec >= timestampSec, whatever its tick and length are.
C39_FimDoSustainNaoAntesDoInicio ==
    (dadosChartOpt # <<>> /\ dadosChartOpt[1].resolucao > 0)
       => \A i \in 1..Len(todasNotasMusicaMestre) :
             todasNotasMusicaMestre[i].tempoFimSustainSec
                >= todasNotasMusicaMestre[i].timestampSec

\* The note of tick 384 and length 2147483647 at 120 BPM and resolution 192:
\* built as a sustain that starts at 1.0 s and ends at 0 s.
SustainQueTerminaAntesDoInicio ==
    /\ fase = "eventos"
    /\ dadosChartOpt[1].resolucao = RESOLUCAO_PADRAO
    /\ dadosChartOpt[1].notas = <<[tick |-> 384, traste |-> 0, comprimento |-> INT_MAX]>>
    /\ \E i \in 1..Len(todasNotasMusicaMestre) :
          /\ todasNotasMusicaMestre[i].ehNotaLonga
          /\ todasNotasMusicaMestre[i].timestampSec = 1000000
          /\ todasNotasMusicaMestre[i].tempoFimSustainSec = 0

=============================================================================
